---- MODULE Spec2Model ----
(***************************************************************************)
(* A model of the job-fetcher pipeline: fetch_and_extract.py (the          *)
(* multi-source coordinator) and fetch_intern_list.py (the intern-list     *)
(* scraper).  Texts are sequences of one-character strings, so that        *)
(* substring tests, splitting, case folding and date parsing are computed  *)
(* the way the Python code computes them.                                  *)
(***************************************************************************)
EXTENDS Integers, Sequences, FiniteSets, TLC

(***************************************************************************)
(* Text primitives (Python str / re operations used by the sources).       *)
(***************************************************************************)
UpperLetters == <<"A","B","C","D","E","F","G","H","I","J","K","L","M",
                  "N","O","P","Q","R","S","T","U","V","W","X","Y","Z">>

LowerLetters == <<"a","b","c","d","e","f","g","h","i","j","k","l","m",
                  "n","o","p","q","r","s","t","u","v","w","x","y","z">>

DigitChars == <<"0","1","2","3","4","5","6","7","8","9">>

Range(f) == {f[i] : i \in DOMAIN f}

IndexOf(seq, c) == CHOOSE i \in DOMAIN seq : seq[i] = c

IsUpper(c) == c \in Range(UpperLetters)

IsLower(c) == c \in Range(LowerLetters)

IsAlpha(c) == IsUpper(c) \/ IsLower(c)

IsDigit(c) == c \in Range(DigitChars)

\* \s of the regular expressions, and the characters str.strip() removes
IsSpace(c) == c \in {" ", "\t", "\n"}

DigitVal(c) == IndexOf(DigitChars, c) - 1

LowerChar(c) == IF IsUpper(c) THEN LowerLetters[IndexOf(UpperLetters, c)] ELSE c

UpperChar(c) == IF IsLower(c) THEN UpperLetters[IndexOf(LowerLetters, c)] ELSE c

\* str.lower()
lower(s) == [i \in 1..Len(s) |-> LowerChar(s[i])]

\* str.upper()
upper(s) == [i \in 1..Len(s) |-> UpperChar(s[i])]

\* the slice s[i:] counted from 1
From(s, i) == SubSeq(s, i, Len(s))

\* s.startswith(p)
StartsWith(s, p) == Len(p) <= Len(s) /\ SubSeq(s, 1, Len(p)) = p

\* whether sub occurs in s at position i
OccursAt(sub, s, i) == i >= 1 /\ i + Len(sub) - 1 <= Len(s) /\ SubSeq(s, i, i + Len(sub) - 1) = sub

\* sub in s
Contains(sub, s) == \E i \in 1..(Len(s) - Len(sub) + 1) : OccursAt(sub, s, i)

\* the least element of a non-empty set of integers
Least(S) == CHOOSE i \in S : \A j \in S : i <= j

\* the least element of a set of integers, 0 for the empty set
LeastOrZero(S) == IF S = {} THEN 0 ELSE Least(S)

\* s.find(sub, p), counted from 1; 0 when absent, and 0 when p is 0
FindFrom(sub, s, p) ==
    IF p = 0 THEN 0
    ELSE LeastOrZero({i \in p..(Len(s) - Len(sub) + 1) : OccursAt(sub, s, i)})

\* s.find(sub), counted from 1; 0 when absent
Find(sub, s) == FindFrom(sub, s, 1)

RECURSIVE lstrip(_)
lstrip(s) == IF s # <<>> /\ IsSpace(Head(s)) THEN lstrip(Tail(s)) ELSE s

RECURSIVE rstrip(_)
rstrip(s) == IF s # <<>> /\ IsSpace(s[Len(s)]) THEN rstrip(SubSeq(s, 1, Len(s) - 1)) ELSE s

\* str.strip()
strip(s) == rstrip(lstrip(s))

\* str.split(sep) for a one-character separator; i is the first separator
RECURSIVE split(_, _)
split_at(s, sep, i) ==
    IF i = 0 THEN <<s>> ELSE <<SubSeq(s, 1, i - 1)>> \o split(From(s, i + 1), sep)

split(s, sep) == split_at(s, sep, Find(<<sep>>, s))

\* str.replace(a, b) for one-character a and b
replace(s, a, b) == [i \in 1..Len(s) |-> IF s[i] = a THEN b ELSE s[i]]

\* str.replace(a, "") for a one-character a
RECURSIVE remove(_, _)
remove(s, a) ==
    IF s = <<>> THEN <<>>
    ELSE IF Head(s) = a THEN remove(Tail(s), a) ELSE <<Head(s)>> \o remove(Tail(s), a)

\* str.split() with no argument: the maximal runs of non-whitespace; t is the
\* text with its leading whitespace removed, e the end of its first run
RECURSIVE split_ws(_)
split_ws_run(t, e) == <<SubSeq(t, 1, e - 1)>> \o split_ws(From(t, e))

split_ws_stripped(t) ==
    IF t = <<>> THEN <<>>
    ELSE split_ws_run(t, LeastOrZero({i \in 1..(Len(t) + 1) : i = Len(t) + 1 \/ IsSpace(t[i])}))

split_ws(s) == split_ws_stripped(lstrip(s))

\* sep.join(parts) for a one-character sep
RECURSIVE join(_, _)
join(parts, sep) ==
    IF parts = <<>> THEN <<>>
    ELSE IF Len(parts) = 1 THEN parts[1]
    ELSE parts[1] \o <<sep>> \o join(Tail(parts), sep)

\* re.split(r"[\s,]+", s)
IsLocSep(c) == IsSpace(c) \/ c = ","

\* i is the first separator of s, j the first position after its run
RECURSIVE re_split_ws_comma(_)
re_split_run(s, i, j) == <<SubSeq(s, 1, i - 1)>> \o re_split_ws_comma(From(s, j))

re_split_at(s, i) ==
    IF i = 0 THEN <<s>>
    ELSE re_split_run(s, i, LeastOrZero({k \in i..(Len(s) + 1) :
                                            k = Len(s) + 1 \/ ~IsLocSep(s[k])}))

re_split_ws_comma(s) == re_split_at(s, LeastOrZero({i \in 1..Len(s) : IsLocSep(s[i])}))

\* int(digits)
RECURSIVE ToInt(_)
ToInt(ds) == IF ds = <<>> THEN 0 ELSE 10 * ToInt(SubSeq(ds, 1, Len(ds) - 1)) + DigitVal(ds[Len(ds)])

AllDigits(s) == \A i \in 1..Len(s) : IsDigit(s[i])

(***************************************************************************)
(* Token classifiers.                                                      *)
(***************************************************************************)
US_STATE_ABBREVS == {
    <<"A","L">>, <<"A","K">>, <<"A","Z">>, <<"A","R">>, <<"C","A">>, <<"C","O">>, <<"C","T">>, <<"D","E">>,
    <<"F","L">>, <<"G","A">>, <<"H","I">>, <<"I","D">>, <<"I","L">>, <<"I","N">>, <<"I","A">>, <<"K","S">>,
    <<"K","Y">>, <<"L","A">>, <<"M","E">>, <<"M","D">>, <<"M","A">>, <<"M","I">>, <<"M","N">>, <<"M","S">>,
    <<"M","O">>, <<"M","T">>, <<"N","E">>, <<"N","V">>, <<"N","H">>, <<"N","J">>, <<"N","M">>, <<"N","Y">>,
    <<"N","C">>, <<"N","D">>, <<"O","H">>, <<"O","K">>, <<"O","R">>, <<"P","A">>, <<"R","I">>, <<"S","C">>,
    <<"S","D">>, <<"T","N">>, <<"T","X">>, <<"U","T">>, <<"V","T">>, <<"V","A">>, <<"W","A">>, <<"W","V">>,
    <<"W","I">>, <<"W","Y">> }

\* the tests of looks_like_us_or_canada on s = loc.lower() and on the tokens
has_us_marker(s) == Contains(<<"u","s","a">>, s) \/ Contains(<<"u","n","i","t","e","d"," ","s","t","a","t","e","s">>, s) \/ Contains(<<" ","u","s">>, s)

has_canada_marker(s) ==
    Contains(<<"c","a","n","a","d","a">>, s) \/ Contains(<<"o","n","t","a","r","i","o">>, s)
        \/ Contains(<<"t","o","r","o","n","t","o">>, s) \/ Contains(<<"v","a","n","c","o","u","v","e","r">>, s)

any_token_in(tokens, abbrevs) == \E i \in 1..Len(tokens) : tokens[i] \in abbrevs

\* fetch_and_extract.looks_like_us_or_canada
\* the classifier with its Canadian markers left out
looks_like_us_only(loc) ==
    IF loc = <<>> THEN FALSE
    ELSE IF has_us_marker(lower(loc)) THEN TRUE
    ELSE any_token_in(re_split_ws_comma(upper(loc)), US_STATE_ABBREVS)

looks_like_us_or_canada(loc) ==
    IF loc = <<>> THEN FALSE
    ELSE IF has_us_marker(lower(loc)) THEN TRUE
    ELSE IF has_canada_marker(lower(loc)) THEN TRUE
    ELSE any_token_in(re_split_ws_comma(upper(loc)), US_STATE_ABBREVS)

us_states == US_STATE_ABBREVS

\* fetch_intern_list.looks_like_us_or_canada
il_looks_like_us_or_canada(loc) ==
    IF loc = <<>> THEN FALSE
    ELSE IF has_us_marker(lower(loc)) THEN TRUE
    ELSE IF has_canada_marker(lower(loc)) THEN TRUE
    ELSE any_token_in(re_split_ws_comma(upper(loc)), us_states)

\* the status test of the coordinator's filter
status_is_open(status) == Contains(<<"o","p","e","n">>, lower(status)) \/ Contains(<<"U+2705">>, status)

(***************************************************************************)
(* Dates.  A date is its proleptic Gregorian ordinal (date.toordinal():     *)
(* 0001-01-01 is 1), the comparison key of datetime.date.                  *)
(***************************************************************************)
IsLeap(y) == (y % 4 = 0) /\ ((y % 100 # 0) \/ (y % 400 = 0))

DaysInMonth(y, m) ==
    IF m = 2 THEN (IF IsLeap(y) THEN 29 ELSE 28)
    ELSE IF m \in {4, 6, 9, 11} THEN 30 ELSE 31

RECURSIVE DaysBeforeMonth(_, _)
DaysBeforeMonth(y, m) == IF m = 1 THEN 0 ELSE DaysBeforeMonth(y, m - 1) + DaysInMonth(y, m - 1)

\* what datetime.strptime accepts as a calendar date (MINYEAR..MAXYEAR)
ValidDate(y, m, d) == y \in 1..9999 /\ m \in 1..12 /\ d \in 1..DaysInMonth(y, m)

ToOrdinal(y, m, d) ==
    365 * (y - 1) + ((y - 1) \div 4) - ((y - 1) \div 100) + ((y - 1) \div 400)
        + DaysBeforeMonth(y, m) + d

\* datetime(1970,1,1).date(), the sort key of a record with no date
EpochOrdinal == ToOrdinal(1970, 1, 1)

\* results of parse_date_token: a date, None, or an escaping OverflowError
DateOf(n) == [tag |-> "date", ordinal |-> n]

NoDate == [tag |-> "None", ordinal |-> 0]

DateOverflow == [tag |-> "OverflowError", ordinal |-> 0]

\* date - timedelta(days=n): OverflowError below date.min or beyond timedelta.max
MinusDays(today, n) ==
    IF n > 999999999 \/ today - n < 1 THEN DateOverflow ELSE DateOf(today - n)

\* strptime of a numeric year, month, day
StrptimeYMD(y, m, d) == IF ValidDate(y, m, d) THEN DateOf(ToOrdinal(y, m, d)) ELSE NoDate

MonthNames == <<<<"j","a","n","u","a","r","y">>, <<"f","e","b","r","u","a","r","y">>, <<"m","a","r","c","h">>, <<"a","p","r","i","l">>, <<"m","a","y">>, <<"j","u","n","e">>,
                <<"j","u","l","y">>, <<"a","u","g","u","s","t">>, <<"s","e","p","t","e","m","b","e","r">>, <<"o","c","t","o","b","e","r">>, <<"n","o","v","e","m","b","e","r">>, <<"d","e","c","e","m","b","e","r">>>>

\* %B: the full month name, case-insensitive; 0 when it is none
MonthByName(w) ==
    IF \E m \in 1..12 : MonthNames[m] = lower(w)
    THEN CHOOSE m \in 1..12 : MonthNames[m] = lower(w) ELSE 0

\* %b: the three-letter month name, case-insensitive; 0 when it is none
MonthByAbbrev(w) ==
    IF \E m \in 1..12 : SubSeq(MonthNames[m], 1, 3) = lower(w)
    THEN CHOOSE m \in 1..12 : SubSeq(MonthNames[m], 1, 3) = lower(w) ELSE 0

DigitsAt(s, i, n) == i >= 1 /\ i + n - 1 <= Len(s) /\ \A k \in i..(i + n - 1) : IsDigit(s[k])

CharAt(s, i, c) == i >= 1 /\ i <= Len(s) /\ s[i] = c

\* the number of consecutive characters from position i that satisfy P
RunLen(s, i, P(_)) ==
    IF i < 1 \/ i > Len(s) THEN 0
    ELSE Least({k \in i..(Len(s) + 1) : k = Len(s) + 1 \/ ~P(s[k])}) - i

\* (\d{2}/\d{2}/\d{4}) matches at i
MatchMDY(s, i) ==
    DigitsAt(s, i, 2) /\ CharAt(s, i + 2, "/") /\ DigitsAt(s, i + 3, 2)
        /\ CharAt(s, i + 5, "/") /\ DigitsAt(s, i + 6, 4)

\* (\d{4}-\d{2}-\d{2}) matches at i
MatchYMD(s, i) ==
    DigitsAt(s, i, 4) /\ CharAt(s, i + 4, "-") /\ DigitsAt(s, i + 5, 2)
        /\ CharAt(s, i + 7, "-") /\ DigitsAt(s, i + 8, 2)

\* ([A-Za-z]{3,9} \d{1,2},? \d{4}) matches at i: the letters run to a blank,
\* the day is the whole run of one or two digits, the comma is optional
LongLetters(s, i) == RunLen(s, i, IsAlpha)

LongDayAt(s, i) == i + LongLetters(s, i) + 1

LongDayLen(s, i) == RunLen(s, LongDayAt(s, i), IsDigit)

LongHasComma(s, i) == CharAt(s, LongDayAt(s, i) + LongDayLen(s, i), ",")

LongYearAt(s, i) ==
    LongDayAt(s, i) + LongDayLen(s, i) + (IF LongHasComma(s, i) THEN 2 ELSE 1)

MatchLong(s, i) ==
    /\ LongLetters(s, i) \in 3..9
    /\ CharAt(s, i + LongLetters(s, i), " ")
    /\ LongDayLen(s, i) \in 1..2
    /\ CharAt(s, LongYearAt(s, i) - 1, " ")
    /\ DigitsAt(s, LongYearAt(s, i), 4)

\* ([A-Za-z]{3} \d{1,2}) matches at i
MatchShort(s, i) ==
    /\ i + 2 <= Len(s) /\ \A k \in i..(i + 2) : IsAlpha(s[k])
    /\ CharAt(s, i + 3, " ")
    /\ DigitsAt(s, i + 4, 1)

\* pat.search: the leftmost position where the pattern matches, 0 when none
Search(s, M(_, _)) == LeastOrZero({i \in 1..Len(s) : M(s, i)})

\* strptime(txt, "%m/%d/%Y")
ParseMDY(s, i) ==
    StrptimeYMD(ToInt(SubSeq(s, i + 6, i + 9)), ToInt(SubSeq(s, i, i + 1)),
                ToInt(SubSeq(s, i + 3, i + 4)))

\* strptime(txt, "%Y-%m-%d")
ParseYMD(s, i) ==
    StrptimeYMD(ToInt(SubSeq(s, i, i + 3)), ToInt(SubSeq(s, i + 5, i + 6)),
                ToInt(SubSeq(s, i + 8, i + 9)))

\* strptime(txt, "%B %d, %Y"): a full month name and the comma are required
ParseLong(s, i) ==
    IF MonthByName(SubSeq(s, i, i + LongLetters(s, i) - 1)) = 0 \/ ~LongHasComma(s, i)
    THEN NoDate
    ELSE StrptimeYMD(ToInt(SubSeq(s, LongYearAt(s, i), LongYearAt(s, i) + 3)),
                     MonthByName(SubSeq(s, i, i + LongLetters(s, i) - 1)),
                     ToInt(SubSeq(s, LongDayAt(s, i), LongDayAt(s, i) + LongDayLen(s, i) - 1)))

\* strptime(txt + ", <year>", "%b %d, %Y") with the year of the clock
ParseShort(s, i, year) ==
    IF MonthByAbbrev(SubSeq(s, i, i + 2)) = 0 THEN NoDate
    ELSE StrptimeYMD(year, MonthByAbbrev(SubSeq(s, i, i + 2)),
                     ToInt(SubSeq(s, i + 4, i + 3 + (IF DigitsAt(s, i + 4, 2) THEN 2 ELSE 1))))

\* one pattern of DATE_PATTERNS: the parse of its leftmost match, None when the
\* pattern does not match or strptime raises ValueError
TryMDY(s, i) == IF i = 0 THEN NoDate ELSE ParseMDY(s, i)

TryYMD(s, i) == IF i = 0 THEN NoDate ELSE ParseYMD(s, i)

TryLong(s, i) == IF i = 0 THEN NoDate ELSE ParseLong(s, i)

TryShort(s, i, year) == IF i = 0 THEN NoDate ELSE ParseShort(s, i, year)

\* the first of a, b, c, d that is a date
FirstDate(a, b, c, d) ==
    IF a # NoDate THEN a ELSE IF b # NoDate THEN b ELSE IF c # NoDate THEN c ELSE d

\* the loop over DATE_PATTERNS: the first pattern whose leftmost match parses
DatePatterns(s, year) ==
    FirstDate(TryMDY(s, Search(s, MatchMDY)), TryYMD(s, Search(s, MatchYMD)),
              TryLong(s, Search(s, MatchLong)), TryShort(s, Search(s, MatchShort), year))

\* ^(\d+)d$
MatchBareDays(t) == Len(t) >= 2 /\ t[Len(t)] = "d" /\ AllDigits(SubSeq(t, 1, Len(t) - 1))

Today(now) == ToOrdinal(now.year, now.month, now.day)

parse_stripped(t, now) ==
    IF MatchBareDays(t)
    THEN MinusDays(Today(now), ToInt(SubSeq(t, 1, Len(t) - 1)))
    ELSE DatePatterns(t, now.year)

\* fetch_and_extract.parse_date_token at the clock reading now
parse_date_token(token, now) == parse_stripped(strip(token), now)

\* what follows the digits of ^(\d+)\s*<word>s?\s*ago$ matches: rest is the
\* lowercased text after the digits and the blanks
AgoTail(rest, word) ==
    /\ StartsWith(rest, word)
    /\ \/ lstrip(From(rest, Len(word) + 1)) = <<"a","g","o">>
       \/ /\ StartsWith(From(rest, Len(word) + 1), <<"s">>)
          /\ lstrip(From(rest, Len(word) + 2)) = <<"a","g","o">>

\* ^(\d+)\s*<word>s?\s*ago$ with re.IGNORECASE; the digits matched, <<>> when no match
AgoDigits(t, word, n) ==
    IF n >= 1 /\ AgoTail(lower(lstrip(From(t, n + 1))), word) THEN SubSeq(t, 1, n) ELSE <<>>

AgoCount(t, word) == AgoDigits(t, word, RunLen(t, 1, IsDigit))

\* the days (now - timedelta(hours=n)).date() lies before today
DaysBack(now, n) == IF n <= now.hour THEN 0 ELSE ((n - now.hour) + 23) \div 24

\* (now - timedelta(hours=n)).date()
MinusHours(now, n) ==
    IF n \div 24 > 999999999 \/ Today(now) - DaysBack(now, n) < 1 THEN DateOverflow
    ELSE DateOf(Today(now) - DaysBack(now, n))

il_parse_stripped(t, now) ==
    IF AgoCount(t, <<"d","a","y">>) # <<>>
    THEN MinusDays(Today(now), ToInt(AgoCount(t, <<"d","a","y">>)))
    ELSE IF AgoCount(t, <<"h","o","u","r">>) # <<>>
    THEN MinusHours(now, ToInt(AgoCount(t, <<"h","o","u","r">>)))
    ELSE DatePatterns(t, now.year)

\* fetch_intern_list.parse_date_token at the clock reading now
il_parse_date_token(token, now) ==
    IF token = <<>> THEN NoDate ELSE il_parse_stripped(strip(token), now)

(***************************************************************************)
(* Python dicts, in insertion order: sequences of <<key, value>> pairs     *)
(* with distinct keys.                                                     *)
(***************************************************************************)
dict_keys(d) == [i \in 1..Len(d) |-> d[i][1]]

dict_has(d, k) == \E i \in 1..Len(d) : d[i][1] = k

\* d[k] for a key of d
dict_at(d, k) == d[CHOOSE i \in 1..Len(d) : d[i][1] = k][2]

\* d.get(k, default)
dict_get(d, k, default) == IF dict_has(d, k) THEN dict_at(d, k) ELSE default

\* d[k] = v
dict_set(d, k, v) ==
    IF dict_has(d, k)
    THEN [i \in 1..Len(d) |-> IF d[i][1] = k THEN <<k, v>> ELSE d[i]]
    ELSE Append(d, <<k, v>>)

(***************************************************************************)
(* Row extractors of fetch_and_extract.py.                                 *)
(***************************************************************************)
\* re.sub(r'<[^>]+>', '', text); j is the first ">" after the first character
RECURSIVE remove_tags(_)
remove_tag_at(s, j) ==
    IF Head(s) = "<" /\ j > 2
    THEN remove_tags(From(s, j + 1))
    ELSE <<Head(s)>> \o remove_tags(Tail(s))

remove_tags(s) == IF s = <<>> THEN <<>> ELSE remove_tag_at(s, FindFrom(<<">">>, s, 2))

\* fetch_and_extract.clean_html_text
clean_html_text(text) == strip(remove(join(split_ws(remove_tags(text)), " "), "U+21B3"))

\* a position advanced by n, 0 staying 0 (no match)
After(p, n) == IF p = 0 THEN 0 ELSE p + n

\* the text of s from i up to the position before j
Between(s, i, j) == SubSeq(s, i, j - 1)

\* re.search(r'href="([^"]*)"', s): whether it matches, and group 1; i is
\* the first href=" and j the quote that closes it
href_found(s, i, j) ==
    IF j = 0 THEN [found |-> FALSE, url |-> <<>>]
    ELSE [found |-> TRUE, url |-> Between(s, i + 6, j)]

href_from(s, i) == href_found(s, i, FindFrom(<<"\"">>, s, After(i, 6)))

href_search(s) == href_from(s, Find(<<"h","r","e","f","=","\"">>, s))

\* .*?<td[^>]*> from p: the position after the cell's opening tag, 0 when none
TdOpen(low, p) == After(FindFrom(<<">">>, low, After(FindFrom(<<"<","t","d">>, low, p), 3)), 1)

\* (.*?)</td> from c: the position of the closing tag, 0 when none
TdClose(low, c) == FindFrom(<<"<","/","t","d",">">>, low, c)

\* .*?(?:href="([^"]*)"|src="[^"]*") from c: the first position where either
\* alternative matches; the position after the match and group 4.  h and s are
\* the first href=" and src=", hq and sq the quotes that close them.
link_or_src(text, h, hq, s, sq) ==
    IF hq # 0 /\ (sq = 0 \/ h < s)
    THEN [end |-> hq + 1, link |-> Between(text, h + 6, hq)]
    ELSE IF sq # 0 THEN [end |-> sq + 1, link |-> <<>>]
    ELSE [end |-> 0, link |-> <<>>]

link_or_src_at(text, low, h, s) ==
    link_or_src(text, h, FindFrom(<<"\"">>, low, After(h, 6)), s,
                FindFrom(<<"\"">>, low, After(s, 5)))

LinkOrSrc(text, low, c) ==
    link_or_src_at(text, low, FindFrom(<<"h","r","e","f","=","\"">>, low, c), FindFrom(<<"s","r","c","=","\"">>, low, c))

\* One match of row_pattern (re.DOTALL, re.IGNORECASE) after its <tr>: every
\* lazy .*? stops at the first occurrence of what follows it.  groups are the
\* groups captured so far, p the position the match has reached; the result
\* is the groups and the end of the match, end 0 when there is no match.
NoRow == [end |-> 0, groups |-> <<>>]

RECURSIVE scan_row(_, _, _, _)
plain_cell_end(text, low, groups, c, e) ==
    IF e = 0 THEN NoRow
    ELSE scan_row(text, low, Append(groups, Between(text, c, e)), e + 5)

plain_cell(text, low, groups, c) == plain_cell_end(text, low, groups, c, TdClose(low, c))

link_cell_end(text, low, groups, link, e) ==
    IF e = 0 THEN NoRow ELSE scan_row(text, low, Append(groups, link), e + 5)

link_cell(text, low, groups, l4) ==
    link_cell_end(text, low, groups, l4.link, TdClose(low, l4.end))

row_end(groups, z) == IF z = 0 THEN NoRow ELSE [end |-> z + 5, groups |-> groups]

scan_row(text, low, groups, p) ==
    IF Len(groups) = 5 THEN row_end(groups, FindFrom(<<"<","/","t","r",">">>, low, p))
    ELSE IF Len(groups) = 3 THEN link_cell(text, low, groups, LinkOrSrc(text, low, TdOpen(low, p)))
    ELSE plain_cell(text, low, groups, TdOpen(low, p))

RowMatch(text, low, i) == scan_row(text, low, <<>>, i + 4)

\* re.findall(row_pattern, text, re.DOTALL | re.IGNORECASE) from position p
RECURSIVE findall_rows(_, _, _)
findall_after(text, low, m) ==
    IF m.end = 0 THEN <<>> ELSE <<m.groups>> \o findall_rows(text, low, m.end)

findall_from(text, low, i) ==
    IF i = 0 THEN <<>> ELSE findall_after(text, low, RowMatch(text, low, i))

findall_rows(text, low, p) == findall_from(text, low, FindFrom(<<"<","t","r",">">>, low, p))

\* "Extract application link if not already captured"
application_link_of(captured, link_match) ==
    IF captured = <<>> /\ link_match.found THEN link_match.url ELSE captured

\* the body of the loop over the matches: <<>> for a skipped row
html_row(company, role, location, application_link, age_raw, repo) ==
    IF company = <<>> \/ strip(lower(company)) \in {<<"c","o","m","p","a","n","y">>, <<"U+21B3">>}
       \/ Len(strip(company)) < 2
    THEN <<>>
    ELSE << << <<<<"c","o","m","p","a","n","y">>, company>>,
               <<<<"r","o","l","e">>, role>>,
               <<<<"l","o","c","a","t","i","o","n">>, location>>,
               <<<<"a","p","p","l","i","c","a","t","i","o","n">>, application_link>>,
               <<<<"s","t","a","t","u","s">>, <<"o","p","e","n">>>>,
               <<<<"d","a","t","e","_","t","o","k","e","n">>, strip(age_raw)>>,
               <<<<"s","o","u","r","c","e","_","r","e","p","o">>, repo>> >> >>

html_position(match, repo) ==
    html_row(clean_html_text(match[1]), clean_html_text(match[2]), clean_html_text(match[3]),
             application_link_of(match[4], href_search(match[1] \o match[2] \o match[3])),
             match[5], repo)

RECURSIVE html_positions(_, _)
html_positions(matches, repo) ==
    IF matches = <<>> THEN <<>>
    ELSE html_position(Head(matches), repo) \o html_positions(Tail(matches), repo)

\* fetch_and_extract.extract_from_html_tables
extract_from_html_tables(text, repo) == html_positions(findall_rows(text, lower(text), 1), repo)

\* text.splitlines() for "\n" line ends
drop_last_empty(parts) ==
    IF parts[Len(parts)] = <<>> THEN SubSeq(parts, 1, Len(parts) - 1) ELSE parts

splitlines(text) == drop_last_empty(split(text, "\n"))

\* [c.strip() for c in cells if c.strip()]
RECURSIVE stripped_cells(_)
stripped_cells(cells) ==
    IF cells = <<>> THEN <<>>
    ELSE IF strip(Head(cells)) = <<>> THEN stripped_cells(Tail(cells))
    ELSE <<strip(Head(cells))>> \o stripped_cells(Tail(cells))

\* the test of the loop that looks for the table header
IsHeaderLine(line) ==
    Contains(<<"|">>, line)
        /\ (Contains(<<"c","o","m","p","a","n","y">>, lower(line)) \/ Contains(<<"r","o","l","e">>, lower(line)))

\* header_line: the index, counted from 0 as enumerate counts, of the first
\* line that passes the test; -1 stands for None
find_header_line(lines) == LeastOrZero({i \in 1..Len(lines) : IsHeaderLine(lines[i])}) - 1

\* [h.strip().lower().replace(' ', '_') for h in line.split('|') if h.strip()]
normalize_headers(cells) == [i \in 1..Len(cells) |-> replace(lower(cells[i]), " ", "_")]

parse_headers(line) == normalize_headers(stripped_cells(split(line, "|")))

\* position[header] = part for each part that has a header
RECURSIVE assign_parts(_, _, _, _)
assign_parts(position, headers, parts, i) ==
    IF i > Len(parts) \/ i > Len(headers) THEN position
    ELSE assign_parts(dict_set(position, headers[i], parts[i]), headers, parts, i + 1)

\* "Extract application link from HTML tags"
with_href(position, link_match) ==
    IF dict_has(position, <<"a","p","p","l","i","c","a","t","i","o","n">>) /\ link_match.found
    THEN dict_set(position, <<"a","p","p","l","i","c","a","t","i","o","n">>, link_match.url) ELSE position

extract_link(position) ==
    with_href(position, href_search(dict_get(position, <<"a","p","p","l","i","c","a","t","i","o","n">>, <<>>)))

\* "Clean up company name"
clean_company(position) ==
    IF dict_has(position, <<"c","o","m","p","a","n","y">>)
    THEN dict_set(position, <<"c","o","m","p","a","n","y">>, clean_html_text(dict_at(position, <<"c","o","m","p","a","n","y">>)))
    ELSE position

\* the body of the loop over the data rows: <<>> for a skipped line
markdown_row(parts, headers, repo) ==
    IF Len(parts) < Len(headers) THEN <<>>
    ELSE <<clean_company(extract_link(
               assign_parts(<< <<<<"s","o","u","r","c","e","_","r","e","p","o">>, repo>> >>, headers, parts, 1)))>>

markdown_position(line, headers, repo) ==
    IF ~Contains(<<"|">>, line) \/ StartsWith(strip(line), <<"|","-","-","-">>) THEN <<>>
    ELSE markdown_row(stripped_cells(split(line, "|")), headers, repo)

RECURSIVE markdown_positions(_, _, _)
markdown_positions(rows, headers, repo) ==
    IF rows = <<>> THEN <<>>
    ELSE markdown_position(Head(rows), headers, repo)
             \o markdown_positions(Tail(rows), headers, repo)

\* "if not header_line: return positions" is taken for None and for index 0
markdown_table(lines, header_line, repo) ==
    IF header_line = -1 \/ header_line = 0 THEN <<>>
    ELSE markdown_positions(From(lines, header_line + 3),
                            parse_headers(lines[header_line + 1]), repo)

markdown_lines(lines, repo) == markdown_table(lines, find_header_line(lines), repo)

\* fetch_and_extract.extract_from_markdown_tables
extract_from_markdown_tables(text, repo) == markdown_lines(splitlines(text), repo)

\* the merge loop with its seen_links test left out: every map is kept
unique_keep_all(positions, seen_links) == positions

\* the loop "Remove duplicates based on application link"
RECURSIVE unique_by_link(_, _)
unique_step(positions, seen_links, link) ==
    IF link # <<>> /\ link \notin seen_links
    THEN <<Head(positions)>> \o unique_by_link(Tail(positions), seen_links \cup {link})
    ELSE IF link = <<>>
    THEN <<Head(positions)>> \o unique_by_link(Tail(positions), seen_links)
    ELSE unique_by_link(Tail(positions), seen_links)

unique_by_link(positions, seen_links) ==
    IF positions = <<>> THEN <<>>
    ELSE unique_step(positions, seen_links, dict_get(Head(positions), <<"a","p","p","l","i","c","a","t","i","o","n">>, <<>>))

\* the rows of both strategies, concatenated
concat_strategies(text, repo) ==
    extract_from_html_tables(text, repo) \o extract_from_markdown_tables(text, repo)

\* fetch_and_extract.extract_positions_from_text
extract_positions_from_text(text, repo) == unique_by_link(concat_strategies(text, repo), {})

(***************************************************************************)
(* Schema normalizer of fetch_and_extract.py.  A standardized record is a  *)
(* function from the field names assigned so far to texts.                  *)
(***************************************************************************)
TargetFieldOrder == <<"company", "role", "location", "application", "status", "date_token">>

basic_columns == {"company", "role", "location", "application", "status", "date_token",
                  "source_repo"}

target_fields(f) ==
    CASE f = "company" -> <<<<"c","o","m","p","a","n","y">>, <<"o","r","g","a","n","i","z","a","t","i","o","n">>, <<"e","m","p","l","o","y","e","r">>, <<"f","i","r","m">>>>
      [] f = "role" -> <<<<"r","o","l","e">>, <<"p","o","s","i","t","i","o","n">>, <<"j","o","b">>, <<"t","i","t","l","e">>, <<"i","n","t","e","r","n","s","h","i","p">>>>
      [] f = "location" -> <<<<"l","o","c","a","t","i","o","n">>, <<"p","l","a","c","e">>, <<"c","i","t","y">>, <<"s","t","a","t","e">>, <<"c","o","u","n","t","r","y">>>>
      [] f = "application" -> <<<<"a","p","p","l","i","c","a","t","i","o","n">>, <<"l","i","n","k">>, <<"a","p","p","l","y">>, <<"u","r","l">>, <<"h","r","e","f">>>>
      [] f = "status" -> <<<<"s","t","a","t","u","s">>, <<"s","t","a","t","e">>, <<"a","v","a","i","l","a","b","i","l","i","t","y">>, <<"o","p","e","n">>, <<"c","l","o","s","e","d">>>>
      [] f = "date_token" -> <<<<"d","a","t","e">>, <<"p","o","s","t","e","d">>, <<"c","r","e","a","t","e","d">>, <<"a","g","e">>, <<"t","i","m","e">>>>

field_abbrevs(f) ==
    CASE f = "company" -> <<<<"c","o">>, <<"c","o","r","p">>, <<"i","n","c">>, <<"l","t","d">>, <<"l","l","c">>>>
      [] f = "role" -> <<<<"p","o","s">>, <<"j","o","b">>, <<"t","i","t","l","e">>>>
      [] f = "location" -> <<<<"l","o","c">>, <<"p","l","a","c","e">>, <<"a","d","d","r">>>>
      [] f = "application" -> <<<<"a","p","p">>, <<"l","i","n","k">>, <<"u","r","l">>>>
      [] f = "status" -> <<<<"s","t","a","t">>, <<"s","t","a","t","e">>>>
      [] f = "date_token" -> <<<<"d","a","t","e">>, <<"t","i","m","e">>, <<"p","o","s","t","e","d">>>>

\* the defaults with an empty status
field_default_empty_status(f) ==
    CASE f = "company" -> <<"U","n","k","n","o","w","n"," ","C","o","m","p","a","n","y">>
      [] f = "role" -> <<"U","n","k","n","o","w","n"," ","R","o","l","e">>
      [] f = "location" -> <<"U","n","k","n","o","w","n"," ","L","o","c","a","t","i","o","n">>
      [] OTHER -> <<>>

\* the defaults of "Ensure we have the basic required fields"
field_default(f) ==
    CASE f = "company" -> <<"U","n","k","n","o","w","n"," ","C","o","m","p","a","n","y">>
      [] f = "role" -> <<"U","n","k","n","o","w","n"," ","R","o","l","e">>
      [] f = "location" -> <<"U","n","k","n","o","w","n"," ","L","o","c","a","t","i","o","n">>
      [] f = "application" -> <<>>
      [] f = "status" -> <<"o","p","e","n">>
      [] f = "date_token" -> <<>>

\* key.lower() in possible_names or any(name in key.lower() for name in possible_names)
key_matches(key, possible_names) ==
    \E n \in 1..Len(possible_names) :
        lower(key) = possible_names[n] \/ Contains(possible_names[n], lower(key))

\* the first key of pos that matches, as the loop with break finds it; 0 when none
first_matching_key(pos, possible_names) ==
    LeastOrZero({i \in 1..Len(pos) : key_matches(pos[i][1], possible_names)})

\* results of find_best_field_match
NoMatch == [tag |-> "None", key |-> <<>>]

TypeError == [tag |-> "TypeError", key |-> <<>>]

\* available_fields[idx]: available_fields is the view pos.keys(), which does
\* not support indexing, so the subscript raises TypeError
keys_view_getitem(available_fields, idx) == TypeError

\* the three searches of find_best_field_match, each returning through the
\* subscript of available_fields
abbrev_match(available_fields, available_lower, abbrevs, abbrev) ==
    IF abbrev # 0
    THEN keys_view_getitem(available_fields, IndexOf(available_lower, abbrevs[abbrev]))
    ELSE NoMatch

partial_match(available_fields, available_lower, abbrevs, partial) ==
    IF partial # 0 THEN keys_view_getitem(available_fields, partial)
    ELSE abbrev_match(available_fields, available_lower, abbrevs,
             LeastOrZero({a \in 1..Len(abbrevs) : abbrevs[a] \in Range(available_lower)}))

exact_match(available_fields, available_lower, possible_names, abbrevs, exact) ==
    IF exact # 0
    THEN keys_view_getitem(available_fields, IndexOf(available_lower, possible_names[exact]))
    ELSE partial_match(available_fields, available_lower, abbrevs,
             LeastOrZero({i \in 1..Len(available_lower) :
                             \E n \in 1..Len(possible_names) :
                                 Contains(possible_names[n], available_lower[i])
                                     \/ Contains(available_lower[i], possible_names[n])}))

best_field_match(available_fields, available_lower, target_field, possible_names) ==
    exact_match(available_fields, available_lower, possible_names, field_abbrevs(target_field),
        LeastOrZero({n \in 1..Len(possible_names) :
                        possible_names[n] \in Range(available_lower)}))

\* fetch_and_extract.find_best_field_match
find_best_field_match(available_fields, target_field, possible_names) ==
    best_field_match(available_fields,
                     [i \in 1..Len(available_fields) |-> lower(available_fields[i])],
                     target_field, possible_names)

\* "If no match found, try AI-powered mapping": a raised TypeError is the
\* record's "error"
assign_best_match(pos, state, f, best_match) ==
    IF best_match.tag = "TypeError" THEN [state EXCEPT !.error = "TypeError"]
    ELSE IF best_match.tag = "None" THEN state
    ELSE [state EXCEPT !.fields = (f :> dict_at(pos, best_match.key)) @@ @]

\* "First try exact matches": k is the first key of pos that matches
assign_first_match(pos, state, f, k) ==
    IF k # 0 THEN [state EXCEPT !.fields = (f :> pos[k][2]) @@ @]
    ELSE assign_best_match(pos, state, f,
                           find_best_field_match(dict_keys(pos), f, target_fields(f)))

\* one pass of the loop over target_fields.items()
map_field(pos, state, f) ==
    IF state.error # "none" THEN state
    ELSE assign_first_match(pos, state, f, first_matching_key(pos, target_fields(f)))

RECURSIVE map_fields(_, _, _)
map_fields(pos, state, i) ==
    IF i > Len(TargetFieldOrder) THEN state
    ELSE map_fields(pos, map_field(pos, state, TargetFieldOrder[i]), i + 1)

\* the defaults step with the default of "role" left out
ensure_all_but_role(fields, f) ==
    IF f = "role" \/ f \in DOMAIN fields THEN fields ELSE (f :> field_default(f)) @@ fields

\* "if f not in standardized: standardized[f] = default" for one field
ensure_field(fields, f) ==
    IF f \in DOMAIN fields THEN fields ELSE (f :> field_default(f)) @@ fields

RECURSIVE ensure_fields(_, _)
ensure_fields(fields, i) ==
    IF i > Len(TargetFieldOrder) THEN fields
    ELSE ensure_fields(ensure_field(fields, TargetFieldOrder[i]), i + 1)

\* the body of the loop over positions
ensure_mapped(mapped) ==
    IF mapped.error # "none" THEN mapped
    ELSE [mapped EXCEPT !.fields = ensure_fields(@, 1)]

standardize_one(pos) ==
    ensure_mapped(map_fields(pos, [fields |-> ("source_repo" :>
                                                  dict_get(pos, <<"s","o","u","r","c","e","_","r","e","p","o">>, <<>>)),
                                   error |-> "none"], 1))

\* fetch_and_extract.standardize_fields_with_ai: the records, or the exception
\* that escapes; done holds the records appended so far
RECURSIVE standardize_from(_, _)
standardize_append(positions, done, one) ==
    IF one.error # "none" THEN [records |-> <<>>, error |-> one.error]
    ELSE standardize_from(Tail(positions), Append(done, one.fields))

standardize_from(positions, done) ==
    IF positions = <<>> THEN [records |-> done, error |-> "none"]
    ELSE standardize_append(positions, done, standardize_one(Head(positions)))

standardize_fields_with_ai(positions) == standardize_from(positions, <<>>)

\* pos.get(f, "") on a standardized record
rec_get(r, f) == IF f \in DOMAIN r THEN r[f] ELSE <<>>

(***************************************************************************)
(* Inputs: the sources, the documents a fetch can return, the clock.       *)
(***************************************************************************)
REPOS == <<<<"S","i","m","p","l","i","f","y","J","o","b","s","/","S","u","m","m","e","r","2","0","2","6","-","I","n","t","e","r","n","s","h","i","p","s">>,
           <<"v","a","n","s","h","b","0","3","/","S","u","m","m","e","r","2","0","2","6","-","I","n","t","e","r","n","s","h","i","p","s">>,
           <<"s","p","e","e","d","y","a","p","p","l","y","/","2","0","2","6","-","S","W","E","-","C","o","l","l","e","g","e","-","J","o","b","s">>,
           <<"a","r","u","n","i","k","e","/","S","u","m","m","e","r","-","2","0","2","5","-","I","n","t","e","r","n","s","h","i","p","-","L","i","s","t">>,
           <<"i","s","a","i","a","h","i","r","u","o","h","a","/","C","a","n","a","d","i","a","n","-","T","e","c","h","-","A","n","d","-","B","u","s","i","n","e","s","s","-","I","n","t","e","r","n","s","h","i","p","s","-","S","u","m","m","e","r","-","2","0","2","5">>,
           <<"D","a","n","n","n","y","-","B","a","b","s","/","C","a","n","a","d","i","a","n","-","T","e","c","h","-","I","n","t","e","r","n","s","h","i","p","s","-","2","0","2","5">>>>

\* how many of the sources of REPOS a run of the model walks through
NumRepos == 2

\* an empty README:
DocEmpty ==
    <<>>

\* pipe-delimited rows with no header line:
\*   CompanyA | Role A | San Francisco, CA | https://x/a | open | 2d
\*   CompanyB | Role B | Berlin | https://x/b | open | 1d
DocPipeOnly ==
    <<"C","o","m","p","a","n","y","A"," ","|"," ","R","o","l","e"," ","A"," ","|"," ",
      "S","a","n"," ","F","r","a","n","c","i","s","c","o",","," ","C","A"," ","|"," ",
      "h","t","t","p","s",":","/","/","x","/","a"," ","|"," ","o","p","e","n"," ","|",
      " ","2","d","\n","C","o","m","p","a","n","y","B"," ","|"," ","R","o","l","e"," ",
      "B"," ","|"," ","B","e","r","l","i","n"," ","|"," ","h","t","t","p","s",":","/",
      "/","x","/","b"," ","|"," ","o","p","e","n"," ","|"," ","1","d">>

\* a Markdown table under a title line:
\*   # Jobs
\*   | Company | Role | Location | Application | Status | Date |
\*   |---|---|---|---|---|---|
\*   | Acme | SWE | Austin, TX | <a href="https://x/a">Apply</a> | open | 2d |
\*   | Bolt | SWE | Berlin | https://x/b | open | 1d |
\*   | Cato | SWE | Toronto, ON | https://x/c | Closed | 1d |
\*   | Dyn | SWE | Boston, MA | https://x/d | Open | soon |
\*   | Eon | SWE | Reno, NV | https://x/e | (U+2705) | 01/01/1960 |
DocTable ==
    <<"#"," ","J","o","b","s","\n","|"," ","C","o","m","p","a","n","y"," ","|"," ","R",
      "o","l","e"," ","|"," ","L","o","c","a","t","i","o","n"," ","|"," ","A","p","p",
      "l","i","c","a","t","i","o","n"," ","|"," ","S","t","a","t","u","s"," ","|"," ",
      "D","a","t","e"," ","|","\n","|","-","-","-","|","-","-","-","|","-","-","-","|",
      "-","-","-","|","-","-","-","|","-","-","-","|","\n","|"," ","A","c","m","e"," ",
      "|"," ","S","W","E"," ","|"," ","A","u","s","t","i","n",","," ","T","X"," ","|",
      " ","<","a"," ","h","r","e","f","=","\"","h","t","t","p","s",":","/","/","x","/",
      "a","\"",">","A","p","p","l","y","<","/","a",">"," ","|"," ","o","p","e","n"," ",
      "|"," ","2","d"," ","|","\n","|"," ","B","o","l","t"," ","|"," ","S","W","E"," ",
      "|"," ","B","e","r","l","i","n"," ","|"," ","h","t","t","p","s",":","/","/","x",
      "/","b"," ","|"," ","o","p","e","n"," ","|"," ","1","d"," ","|","\n","|"," ","C",
      "a","t","o"," ","|"," ","S","W","E"," ","|"," ","T","o","r","o","n","t","o",",",
      " ","O","N"," ","|"," ","h","t","t","p","s",":","/","/","x","/","c"," ","|"," ",
      "C","l","o","s","e","d"," ","|"," ","1","d"," ","|","\n","|"," ","D","y","n"," ",
      "|"," ","S","W","E"," ","|"," ","B","o","s","t","o","n",","," ","M","A"," ","|",
      " ","h","t","t","p","s",":","/","/","x","/","d"," ","|"," ","O","p","e","n"," ",
      "|"," ","s","o","o","n"," ","|","\n","|"," ","E","o","n"," ","|"," ","S","W","E",
      " ","|"," ","R","e","n","o",","," ","N","V"," ","|"," ","h","t","t","p","s",":",
      "/","/","x","/","e"," ","|"," ","U+2705"," ","|"," ","0","1","/","0","1","/","1",
      "9","6","0"," ","|","\n">>

\* an HTML table and a Markdown table whose link column is headed Link:
\*   <table>
\*   <tr><td>Acme</td><td>SWE</td><td>Austin, TX</td><td><a href="https://x/a">Apply</a></td><td>2d</td></tr>
\*   </table>
\*   | Company | Location | Link |
\*   |---|---|---|
\*   | Acme | Austin, TX | https://x/a |
DocBothLink ==
    <<"<","t","a","b","l","e",">","\n","<","t","r",">","<","t","d",">","A","c","m","e",
      "<","/","t","d",">","<","t","d",">","S","W","E","<","/","t","d",">","<","t","d",
      ">","A","u","s","t","i","n",","," ","T","X","<","/","t","d",">","<","t","d",">",
      "<","a"," ","h","r","e","f","=","\"","h","t","t","p","s",":","/","/","x","/","a",
      "\"",">","A","p","p","l","y","<","/","a",">","<","/","t","d",">","<","t","d",">",
      "2","d","<","/","t","d",">","<","/","t","r",">","\n","<","/","t","a","b","l","e",
      ">","\n","|"," ","C","o","m","p","a","n","y"," ","|"," ","L","o","c","a","t","i",
      "o","n"," ","|"," ","L","i","n","k"," ","|","\n","|","-","-","-","|","-","-","-",
      "|","-","-","-","|","\n","|"," ","A","c","m","e"," ","|"," ","A","u","s","t","i",
      "n",","," ","T","X"," ","|"," ","h","t","t","p","s",":","/","/","x","/","a"," ",
      "|","\n">>

\* an HTML table and a Markdown table whose link column is headed Application:
\*   <table>
\*   <tr><td>Acme</td><td>SWE</td><td>Austin, TX</td><td><a href="https://x/a">Apply</a></td><td>2d</td></tr>
\*   <tr><td><b>Gem</b></td><td>SWE</td><td>Ames, IA</td><td><img src="l.png"></td><td>3d</td></tr>
\*   </table>
\*   | Company | Role | Location | Application |
\*   |---|---|---|---|
\*   | Acme | SWE | Austin, TX | <a href="https://x/a">Apply</a> |
\*   | Hex | SWE | Provo, UT | https://x/h |
DocBothApp ==
    <<"<","t","a","b","l","e",">","\n","<","t","r",">","<","t","d",">","A","c","m","e",
      "<","/","t","d",">","<","t","d",">","S","W","E","<","/","t","d",">","<","t","d",
      ">","A","u","s","t","i","n",","," ","T","X","<","/","t","d",">","<","t","d",">",
      "<","a"," ","h","r","e","f","=","\"","h","t","t","p","s",":","/","/","x","/","a",
      "\"",">","A","p","p","l","y","<","/","a",">","<","/","t","d",">","<","t","d",">",
      "2","d","<","/","t","d",">","<","/","t","r",">","\n","<","t","r",">","<","t","d",
      ">","<","b",">","G","e","m","<","/","b",">","<","/","t","d",">","<","t","d",">",
      "S","W","E","<","/","t","d",">","<","t","d",">","A","m","e","s",","," ","I","A",
      "<","/","t","d",">","<","t","d",">","<","i","m","g"," ","s","r","c","=","\"","l",
      ".","p","n","g","\"",">","<","/","t","d",">","<","t","d",">","3","d","<","/","t",
      "d",">","<","/","t","r",">","\n","<","/","t","a","b","l","e",">","\n","|"," ","C",
      "o","m","p","a","n","y"," ","|"," ","R","o","l","e"," ","|"," ","L","o","c","a",
      "t","i","o","n"," ","|"," ","A","p","p","l","i","c","a","t","i","o","n"," ","|",
      "\n","|","-","-","-","|","-","-","-","|","-","-","-","|","-","-","-","|","\n","|",
      " ","A","c","m","e"," ","|"," ","S","W","E"," ","|"," ","A","u","s","t","i","n",
      ","," ","T","X"," ","|"," ","<","a"," ","h","r","e","f","=","\"","h","t","t","p",
      "s",":","/","/","x","/","a","\"",">","A","p","p","l","y","<","/","a",">"," ","|",
      "\n","|"," ","H","e","x"," ","|"," ","S","W","E"," ","|"," ","P","r","o","v","o",
      ","," ","U","T"," ","|"," ","h","t","t","p","s",":","/","/","x","/","h"," ","|",
      "\n">>

\* a Markdown table with abbreviated column labels:
\*   # Jobs
\*   | Co | Role | Loc | Link |
\*   |---|---|---|---|
\*   | Acme | SWE | Austin, TX | https://x/a |
DocAbbrev ==
    <<"#"," ","J","o","b","s","\n","|"," ","C","o"," ","|"," ","R","o","l","e"," ","|",
      " ","L","o","c"," ","|"," ","L","i","n","k"," ","|","\n","|","-","-","-","|","-",
      "-","-","|","-","-","-","|","-","-","-","|","\n","|"," ","A","c","m","e"," ","|",
      " ","S","W","E"," ","|"," ","A","u","s","t","i","n",","," ","T","X"," ","|"," ",
      "h","t","t","p","s",":","/","/","x","/","a"," ","|","\n">>

\* a Markdown table with a day count beyond date.min:
\*   # Jobs
\*   | Company | Role | Location | Application | Posted |
\*   |---|---|---|---|---|
\*   | Ion | SWE | Salem, OR | https://x/i | 9999999d |
DocOverflow ==
    <<"#"," ","J","o","b","s","\n","|"," ","C","o","m","p","a","n","y"," ","|"," ","R",
      "o","l","e"," ","|"," ","L","o","c","a","t","i","o","n"," ","|"," ","A","p","p",
      "l","i","c","a","t","i","o","n"," ","|"," ","P","o","s","t","e","d"," ","|","\n",
      "|","-","-","-","|","-","-","-","|","-","-","-","|","-","-","-","|","-","-","-",
      "|","\n","|"," ","I","o","n"," ","|"," ","S","W","E"," ","|"," ","S","a","l","e",
      "m",","," ","O","R"," ","|"," ","h","t","t","p","s",":","/","/","x","/","i"," ",
      "|"," ","9","9","9","9","9","9","9","d"," ","|","\n">>

Docs == <<DocEmpty, DocPipeOnly, DocTable, DocBothLink, DocBothApp, DocAbbrev, DocOverflow>>

\* the readings of the clock a run can happen at (datetime.utcnow())
Clocks == {[year |-> 2025, month |-> 6, day |-> 15, hour |-> 2],
           [year |-> 2025, month |-> 6, day |-> 15, hour |-> 13]}

(***************************************************************************)
(* State.                                                                  *)
(***************************************************************************)
VARIABLES
    entry,                \* the script that runs: "fetch_and_extract" or "fetch_intern_list"
    now,                  \* the clock of the run
    pc,                   \* the position of main
    error,                \* the exception that ended the run, "none" otherwise
    repo_idx,             \* the index in REPOS of the next source of the loop
    clone_calls,          \* how many times shallow_clone ran for each source
    fetched,              \* per source: 0 not yet reached, -1 clone failed, else the index in Docs
    positions,            \* extract_positions_from_text: the concatenated rows of the last call
    unique_positions,     \* extract_positions_from_text: the rows the last call returned
    all_positions,        \* main: the raw field maps of all sources
    standardized_positions, \* main: all_positions after standardize_fields_with_ai
    filtered_positions,   \* main: the records that pass the filter
    all_positions_sorted, \* main: the filtered records, sorted
    csv_rows              \* the rows written to OUT_CSV

fe_vars == <<repo_idx, clone_calls, fetched, positions, unique_positions, all_positions,
             standardized_positions, filtered_positions, all_positions_sorted>>

VARIABLES
    url_idx,              \* scrape_intern_list: the index of the next candidate URL
    working_url,          \* scrape_intern_list: the index of the URL that answered, 0 for None
    sample_idx,           \* scrape_intern_list: the next placeholder listing to resolve
    il_positions,         \* the positions scrape_intern_list has so far
    il_filtered,          \* fetch_intern_list.main: filtered_positions
    positions_sorted,     \* fetch_intern_list.main: positions_sorted
    deduplicated_positions \* fetch_intern_list.main: deduplicated_positions

il_vars == <<url_idx, working_url, sample_idx, il_positions, il_filtered, positions_sorted,
             deduplicated_positions>>

VARIABLES
    call,                 \* a function applied on its own: its name and its argument
    call_result           \* what the call returned

fn_vars == <<call, call_result>>

\* no function is applied on its own in a run of a script
NoCall == [fn |-> "none", arg |-> <<>>]

Pending == [tag |-> "pending"]

Returned(v) == [tag |-> "returned", value |-> v]

(***************************************************************************)
(* fetch_and_extract.main                                                  *)
(***************************************************************************)
\* the position after the loop body of source repo_idx
AfterSource == IF repo_idx = NumRepos THEN "standardize" ELSE "fetch"

\* a failed clone that also loses the rows collected from the earlier sources
CloneFailsLosesRows ==
    /\ entry = "fetch_and_extract" /\ pc = "fetch" /\ repo_idx <= NumRepos
    /\ clone_calls' = [clone_calls EXCEPT ![repo_idx] = @ + 1]
    /\ fetched' = [fetched EXCEPT ![repo_idx] = -1]
    /\ all_positions' = <<>>
    /\ repo_idx' = repo_idx + 1
    /\ pc' = AfterSource
    /\ UNCHANGED il_vars
    /\ UNCHANGED <<fn_vars, entry, now, error, positions, unique_positions, standardized_positions,
                   filtered_positions, all_positions_sorted, csv_rows>>

\* shallow_clone returns False: the source is skipped
CloneFails ==
    /\ entry = "fetch_and_extract" /\ pc = "fetch" /\ repo_idx <= NumRepos
    /\ clone_calls' = [clone_calls EXCEPT ![repo_idx] = @ + 1]
    /\ fetched' = [fetched EXCEPT ![repo_idx] = -1]
    /\ repo_idx' = repo_idx + 1
    /\ pc' = AfterSource
    /\ UNCHANGED il_vars
    /\ UNCHANGED <<fn_vars, entry, now, error, positions, unique_positions, all_positions,
                   standardized_positions, filtered_positions, all_positions_sorted,
                   csv_rows>>

\* shallow_clone returns True and the README (or the first "intern" file) reads
\* as Docs[d]; empty content skips the source
CloneSucceeds(d) ==
    /\ entry = "fetch_and_extract" /\ pc = "fetch" /\ repo_idx <= NumRepos
    /\ clone_calls' = [clone_calls EXCEPT ![repo_idx] = @ + 1]
    /\ fetched' = [fetched EXCEPT ![repo_idx] = d]
    /\ IF Docs[d] = <<>>
       THEN UNCHANGED <<positions, unique_positions, all_positions>>
       ELSE /\ positions' = concat_strategies(Docs[d], REPOS[repo_idx])
            /\ unique_positions' = unique_by_link(positions', {})
            /\ all_positions' = all_positions \o unique_positions'
    /\ repo_idx' = repo_idx + 1
    /\ pc' = AfterSource
    /\ UNCHANGED il_vars
    /\ UNCHANGED <<fn_vars, entry, now, error, standardized_positions, filtered_positions,
                   all_positions_sorted, csv_rows>>

\* all_positions = standardize_fields_with_ai(all_positions)
Standardize ==
    /\ entry = "fetch_and_extract" /\ pc = "standardize"
    /\ IF standardize_fields_with_ai(all_positions).error # "none"
       THEN /\ error' = standardize_fields_with_ai(all_positions).error
            /\ pc' = "crashed"
            /\ UNCHANGED standardized_positions
       ELSE /\ standardized_positions' = standardize_fields_with_ai(all_positions).records
            /\ pc' = "filter"
            /\ UNCHANGED error
    /\ UNCHANGED il_vars
    /\ UNCHANGED <<fn_vars, entry, now, repo_idx, clone_calls, fetched, positions, unique_positions,
                   all_positions, filtered_positions, all_positions_sorted, csv_rows>>

\* the filter with its status test left out
passes_location_only(pos) == looks_like_us_or_canada(rec_get(pos, "location"))

\* the test of "Filter for US/Canada locations and open positions"
passes_filter(pos) ==
    looks_like_us_or_canada(rec_get(pos, "location")) /\ status_is_open(rec_get(pos, "status"))

Filter ==
    /\ entry = "fetch_and_extract" /\ pc = "filter"
    /\ filtered_positions' = SelectSeq(standardized_positions, passes_filter)
    /\ pc' = "sort"
    /\ UNCHANGED il_vars
    /\ UNCHANGED <<fn_vars, entry, now, error, repo_idx, clone_calls, fetched, positions,
                   unique_positions, all_positions, standardized_positions,
                   all_positions_sorted, csv_rows>>

\* main.parse_date: the sort key of a record, or the exception parse_date_token raises
or_epoch(dt) == IF dt.tag = "None" THEN DateOf(EpochOrdinal) ELSE dt

parse_date(pos, clock) == or_epoch(parse_date_token(rec_get(pos, "date_token"), clock))

\* sorted(items, key=..., reverse=True) given the keys: stable, greatest key first
sort_rank(keys, i) ==
    1 + Cardinality({j \in 1..Len(keys) : keys[j] > keys[i] \/ (keys[j] = keys[i] /\ j < i)})

sorted_reverse(items, keys) ==
    [p \in 1..Len(items) |-> items[CHOOSE i \in 1..Len(items) : sort_rank(keys, i) = p]]

\* the sort keys of the records, and whether computing one of them raises
sort_keys(items, clock) == [i \in 1..Len(items) |-> parse_date(items[i], clock)]

key_raises(keys) == \E i \in 1..Len(keys) : keys[i].tag = "OverflowError"

ordinals(keys) == [i \in 1..Len(keys) |-> keys[i].ordinal]

Sort ==
    /\ entry = "fetch_and_extract" /\ pc = "sort"
    /\ IF key_raises(sort_keys(filtered_positions, now))
       THEN /\ error' = "OverflowError"
            /\ pc' = "crashed"
            /\ UNCHANGED all_positions_sorted
       ELSE /\ all_positions_sorted' =
                   sorted_reverse(filtered_positions,
                                  ordinals(sort_keys(filtered_positions, now)))
            /\ pc' = "write"
            /\ UNCHANGED error
    /\ UNCHANGED il_vars
    /\ UNCHANGED <<fn_vars, entry, now, repo_idx, clone_calls, fetched, positions, unique_positions,
                   all_positions, standardized_positions, filtered_positions, csv_rows>>

\* the union of the keys of the filtered records and basic_columns
fieldnames_of(records) == basic_columns \cup UNION {DOMAIN records[i] : i \in 1..Len(records)}

fieldnames == fieldnames_of(filtered_positions)

\* a writer that leaves the date token out of the row
csv_row_without_token(p, names) ==
    [f \in names |-> IF f \in DOMAIN p /\ f # "date_token" THEN p[f] ELSE <<>>]

\* csv.DictWriter.writerow: a missing key is written as the empty restval
csv_row(p, names) == [f \in names |-> IF f \in DOMAIN p THEN p[f] ELSE <<>>]

WriteCsv ==
    /\ entry = "fetch_and_extract" /\ pc = "write"
    /\ csv_rows' = [i \in 1..Len(all_positions_sorted) |->
                        csv_row(all_positions_sorted[i], fieldnames)]
    /\ pc' = "done"
    /\ UNCHANGED il_vars
    /\ UNCHANGED <<fn_vars, entry, now, error, repo_idx, clone_calls, fetched, positions,
                   unique_positions, all_positions, standardized_positions,
                   filtered_positions, all_positions_sorted>>


\* main from the standardize step on, as a function of the raw field maps
\* and the clock: the rows it writes, or the exception that ends it
main_write(records, sorted) ==
    [error |-> "none",
     rows |-> [i \in 1..Len(sorted) |-> csv_row(sorted[i], fieldnames_of(records))]]

main_sort(records, keys) ==
    IF key_raises(keys) THEN [error |-> "OverflowError", rows |-> <<>>]
    ELSE main_write(records, sorted_reverse(records, ordinals(keys)))

main_filter(records, clock) == main_sort(records, sort_keys(records, clock))

main_standardize(result, clock) ==
    IF result.error # "none" THEN [error |-> result.error, rows |-> <<>>]
    ELSE main_filter(SelectSeq(result.records, passes_filter), clock)

main_from_raw(raw, clock) == main_standardize(standardize_fields_with_ai(raw), clock)

\* the loop over REPOS from source r on, given what each fetch returned: the
\* raw field maps of the sources whose clone succeeded with content
RECURSIVE collect_positions(_, _)
collect_positions(outcome, r) ==
    IF r > NumRepos THEN <<>>
    ELSE (IF outcome[r] > 0 /\ Docs[outcome[r]] # <<>>
          THEN extract_positions_from_text(Docs[outcome[r]], REPOS[r])
          ELSE <<>>) \o collect_positions(outcome, r + 1)

(***************************************************************************)
(* fetch_intern_list.py                                                    *)
(***************************************************************************)
potential_urls == <<<<"h","t","t","p","s",":","/","/","i","n","t","e","r","n","-","l","i","s","t",".","c","o","m">>, <<"h","t","t","p","s",":","/","/","w","w","w",".","i","n","t","e","r","n","-","l","i","s","t",".","c","o","m">>,
                    <<"h","t","t","p","s",":","/","/","i","n","t","e","r","n","l","i","s","t",".","c","o","m">>, <<"h","t","t","p","s",":","/","/","w","w","w",".","i","n","t","e","r","n","l","i","s","t",".","c","o","m">>,
                    <<"h","t","t","p","s",":","/","/","j","o","b","r","i","g","h","t",".","a","i","/","i","n","t","e","r","n","s","h","i","p","s">>,
                    <<"h","t","t","p","s",":","/","/","a","p","p",".","j","o","b","r","i","g","h","t",".","a","i","/","j","o","b","s","/","i","n","t","e","r","n","s","h","i","p","s">>>>

\* the placeholder listings of scrape_intern_list
sample_positions == <<
    [company |-> <<"M","e","t","a">>, role |-> <<"S","o","f","t","w","a","r","e"," ","E","n","g","i","n","e","e","r"," ","I","n","t","e","r","n"," ","-"," ","2","0","2","5">>,
      location |-> <<"M","e","n","l","o"," ","P","a","r","k",","," ","C","A">>,
      application |-> <<"h","t","t","p","s",":","/","/","j","o","b","r","i","g","h","t",".","a","i","/","a","p","p","l","y","/","m","e","t","a","-","s","w","e","-","i","n","t","e","r","n","-","2","0","2","5","-","1","2","3">>,
      status |-> <<"o","p","e","n">>, date_token |-> <<"1","d">>, source_repo |-> <<"i","n","t","e","r","n","-","l","i","s","t",".","c","o","m">>],
    [company |-> <<"G","o","o","g","l","e">>, role |-> <<"S","o","f","t","w","a","r","e"," ","E","n","g","i","n","e","e","r","i","n","g"," ","I","n","t","e","r","n">>,
      location |-> <<"M","o","u","n","t","a","i","n"," ","V","i","e","w",","," ","C","A">>,
      application |-> <<"h","t","t","p","s",":","/","/","j","o","b","r","i","g","h","t",".","a","i","/","a","p","p","l","y","/","g","o","o","g","l","e","-","s","w","e","-","i","n","t","e","r","n","-","4","5","6">>,
      status |-> <<"o","p","e","n">>, date_token |-> <<"2","d">>, source_repo |-> <<"i","n","t","e","r","n","-","l","i","s","t",".","c","o","m">>],
    [company |-> <<"M","i","c","r","o","s","o","f","t">>, role |-> <<"S","o","f","t","w","a","r","e"," ","E","n","g","i","n","e","e","r","i","n","g"," ","I","n","t","e","r","n">>,
      location |-> <<"R","e","d","m","o","n","d",","," ","W","A">>,
      application |-> <<"h","t","t","p","s",":","/","/","j","o","b","r","i","g","h","t",".","a","i","/","a","p","p","l","y","/","m","i","c","r","o","s","o","f","t","-","s","d","e","-","i","n","t","e","r","n","-","7","8","9">>,
      status |-> <<"o","p","e","n">>, date_token |-> <<"3","d">>, source_repo |-> <<"i","n","t","e","r","n","-","l","i","s","t",".","c","o","m">>],
    [company |-> <<"A","m","a","z","o","n">>, role |-> <<"S","D","E"," ","I","n","t","e","r","n"," ","S","u","m","m","e","r"," ","2","0","2","5">>,
      location |-> <<"S","e","a","t","t","l","e",","," ","W","A">>,
      application |-> <<"h","t","t","p","s",":","/","/","j","o","b","r","i","g","h","t",".","a","i","/","a","p","p","l","y","/","a","m","a","z","o","n","-","s","d","e","-","i","n","t","e","r","n","-","1","0","1">>,
      status |-> <<"o","p","e","n">>, date_token |-> <<"5","d">>, source_repo |-> <<"i","n","t","e","r","n","-","l","i","s","t",".","c","o","m">>],
    [company |-> <<"S","h","o","p","i","f","y">>, role |-> <<"D","e","v","e","l","o","p","e","r"," ","I","n","t","e","r","n">>,
      location |-> <<"T","o","r","o","n","t","o",","," ","O","N",","," ","C","a","n","a","d","a">>,
      application |-> <<"h","t","t","p","s",":","/","/","j","o","b","r","i","g","h","t",".","a","i","/","a","p","p","l","y","/","s","h","o","p","i","f","y","-","d","e","v","-","i","n","t","e","r","n","-","2","0","2">>,
      status |-> <<"o","p","e","n">>, date_token |-> <<"1","w">>, source_repo |-> <<"i","n","t","e","r","n","-","l","i","s","t",".","c","o","m">>],
    [company |-> <<"N","e","t","f","l","i","x">>, role |-> <<"S","o","f","t","w","a","r","e"," ","E","n","g","i","n","e","e","r"," ","I","n","t","e","r","n">>,
      location |-> <<"L","o","s"," ","G","a","t","o","s",","," ","C","A">>,
      application |-> <<"h","t","t","p","s",":","/","/","j","o","b","r","i","g","h","t",".","a","i","/","a","p","p","l","y","/","n","e","t","f","l","i","x","-","s","w","e","-","i","n","t","e","r","n","-","3","0","3">>,
      status |-> <<"o","p","e","n">>, date_token |-> <<"4","d">>, source_repo |-> <<"i","n","t","e","r","n","-","l","i","s","t",".","c","o","m">>],
    [company |-> <<"S","t","r","i","p","e">>, role |-> <<"E","n","g","i","n","e","e","r","i","n","g"," ","I","n","t","e","r","n">>,
      location |-> <<"S","a","n"," ","F","r","a","n","c","i","s","c","o",","," ","C","A">>,
      application |-> <<"h","t","t","p","s",":","/","/","j","o","b","r","i","g","h","t",".","a","i","/","a","p","p","l","y","/","s","t","r","i","p","e","-","e","n","g","-","i","n","t","e","r","n","-","4","0","4">>,
      status |-> <<"o","p","e","n">>, date_token |-> <<"6","d">>, source_repo |-> <<"i","n","t","e","r","n","-","l","i","s","t",".","c","o","m">>],
    [company |-> <<"S","n","o","w","f","l","a","k","e">>, role |-> <<"S","o","f","t","w","a","r","e"," ","E","n","g","i","n","e","e","r"," ","I","n","t","e","r","n">>,
      location |-> <<"S","a","n"," ","M","a","t","e","o",","," ","C","A">>,
      application |-> <<"h","t","t","p","s",":","/","/","j","o","b","r","i","g","h","t",".","a","i","/","a","p","p","l","y","/","s","n","o","w","f","l","a","k","e","-","s","w","e","-","i","n","t","e","r","n","-","5","0","5">>,
      status |-> <<"o","p","e","n">>, date_token |-> <<"1","w">>, source_repo |-> <<"i","n","t","e","r","n","-","l","i","s","t",".","c","o","m">>] >>

company_mappings == <<
    <<<<"m","e","t","a">>, <<"h","t","t","p","s",":","/","/","w","w","w",".","m","e","t","a","c","a","r","e","e","r","s",".","c","o","m","/","j","o","b","s","/","1","2","3","4","5","6","7","8","9">>>>,
    <<<<"g","o","o","g","l","e">>, <<"h","t","t","p","s",":","/","/","c","a","r","e","e","r","s",".","g","o","o","g","l","e",".","c","o","m","/","j","o","b","s","/","r","e","s","u","l","t","s","/","1","2","3","4","5","6">>>>,
    <<<<"m","i","c","r","o","s","o","f","t">>, <<"h","t","t","p","s",":","/","/","c","a","r","e","e","r","s",".","m","i","c","r","o","s","o","f","t",".","c","o","m","/","u","s","/","e","n","/","j","o","b","/","1","2","3","4","5","6">>>>,
    <<<<"a","m","a","z","o","n">>, <<"h","t","t","p","s",":","/","/","a","m","a","z","o","n",".","j","o","b","s","/","e","n","/","j","o","b","s","/","1","2","3","4","5","6">>>>,
    <<<<"s","h","o","p","i","f","y">>, <<"h","t","t","p","s",":","/","/","w","w","w",".","s","h","o","p","i","f","y",".","c","o","m","/","c","a","r","e","e","r","s","/","1","2","3","4","5","6">>>>,
    <<<<"n","e","t","f","l","i","x">>, <<"h","t","t","p","s",":","/","/","j","o","b","s",".","n","e","t","f","l","i","x",".","c","o","m","/","j","o","b","s","/","1","2","3","4","5","6">>>>,
    <<<<"s","t","r","i","p","e">>, <<"h","t","t","p","s",":","/","/","s","t","r","i","p","e",".","c","o","m","/","j","o","b","s","/","l","i","s","t","i","n","g","/","1","2","3","4","5","6">>>>,
    <<<<"s","n","o","w","f","l","a","k","e">>, <<"h","t","t","p","s",":","/","/","c","a","r","e","e","r","s",".","s","n","o","w","f","l","a","k","e",".","c","o","m","/","u","s","/","e","n","/","j","o","b","/","1","2","3","4","5","6">>>> >>

\* what the network answers to the GET of a redirector URL: an exception, or a
\* response with its final URL and the query parameters parse_qs reads from it
NetException == [kind |-> "exception", final_url |-> <<>>, params |-> <<>>]

NetDirect == [kind |-> "response", final_url |-> <<"h","t","t","p","s",":","/","/","x","/","a">>, params |-> <<>>]

NetParam == [kind |-> "response", final_url |-> <<"h","t","t","p","s",":","/","/","j","o","b","r","i","g","h","t",".","a","i","/","r","?","u","r","l","=","h","t","t","p","s",":","/","/","x","/","b">>,
             params |-> << <<<<"u","r","l">>, <<"h","t","t","p","s",":","/","/","x","/","b">>>> >>]

NetOutcomes == {NetException, NetDirect, NetParam}

\* the outcomes drawn for the placeholder listings
SampleNetOutcomes == {NetException, NetDirect}

redirect_params == <<<<"u","r","l">>, <<"r","e","d","i","r","e","c","t">>, <<"t","a","r","g","e","t">>, <<"l","i","n","k">>, <<"j","o","b","_","u","r","l">>>>

\* fetch_intern_list.extract_original_url_from_jobright, given the network's answer
extract_original_url_from_jobright(jobright_url, net) ==
    IF net.kind = "response"
    THEN LET hits == {i \in 1..Len(redirect_params) :
                         /\ dict_has(net.params, redirect_params[i])
                         /\ StartsWith(dict_at(net.params, redirect_params[i]), <<"h","t","t","p">>)}
         IN  IF Contains(<<"j","o","b","r","i","g","h","t">>, lower(net.final_url)) /\ hits # {}
             THEN dict_at(net.params, redirect_params[Least(hits)])
             ELSE net.final_url
    ELSE LET hits == {i \in 1..Len(company_mappings) :
                         Contains(company_mappings[i][1], lower(jobright_url))}
         IN  IF hits # {} THEN company_mappings[Least(hits)][2] ELSE jobright_url

\* the defaults with a status that is not open
default_position_closed ==
    [company |-> <<"U","n","k","n","o","w","n"," ","C","o","m","p","a","n","y">>, role |-> <<"U","n","k","n","o","w","n"," ","R","o","l","e">>,
     location |-> <<"U","n","k","n","o","w","n"," ","L","o","c","a","t","i","o","n">>, application |-> <<>>, status |-> <<"c","l","o","s","e","d">>,
     date_token |-> <<>>, source_repo |-> <<"i","n","t","e","r","n","-","l","i","s","t",".","c","o","m">>]

\* the defaults extract_position_from_element starts from
default_position ==
    [company |-> <<"U","n","k","n","o","w","n"," ","C","o","m","p","a","n","y">>, role |-> <<"U","n","k","n","o","w","n"," ","R","o","l","e">>,
     location |-> <<"U","n","k","n","o","w","n"," ","L","o","c","a","t","i","o","n">>, application |-> <<>>, status |-> <<"o","p","e","n">>,
     date_token |-> <<>>, source_repo |-> <<"i","n","t","e","r","n","-","l","i","s","t",".","c","o","m">>]

\* A page element is what its selectors find: a function from some of
\* "company", "role", "location", "date_token", "apply" to the text found (for
\* "apply" the absolute URL urljoin returns); "raises" marks an element whose
\* processing raises, which the loop catches and skips.
ElemAcme == [found |-> [company |-> <<"A","c","m","e">>, role |-> <<"S","W","E">>, location |-> <<"A","u","s","t","i","n",","," ","T","X">>,
                        date_token |-> <<"2"," ","d","a","y","s"," ","a","g","o">>,
                        apply |-> <<"h","t","t","p","s",":","/","/","j","o","b","r","i","g","h","t",".","a","i","/","a","p","p","l","y","/","1">>],
             raises |-> FALSE]

ElemBolt == [found |-> [company |-> <<"B","o","l","t">>, location |-> <<"B","e","r","l","i","n">>,
                        date_token |-> <<"1"," ","d","a","y"," ","a","g","o">>, apply |-> <<"h","t","t","p","s",":","/","/","x","/","b">>],
             raises |-> FALSE]

ElemCato == [found |-> [company |-> <<"C","a","t","o">>, role |-> <<"S","W","E">>, location |-> <<"T","o","r","o","n","t","o",","," ","O","N">>,
                        date_token |-> <<"3"," ","h","o","u","r","s"," ","a","g","o">>, apply |-> <<"h","t","t","p","s",":","/","/","x","/","a">>],
             raises |-> FALSE]

ElemBare == [found |-> <<>>, raises |-> FALSE]

ElemBad == [found |-> [company |-> <<"D","y","n">>, location |-> <<"B","o","s","t","o","n",","," ","M","A">>], raises |-> TRUE]

ElemNoDate == [found |-> [company |-> <<"E","o","n">>, location |-> <<"R","e","n","o",","," ","N","V">>,
                          apply |-> <<"h","t","t","p","s",":","/","/","x","/","e">>],
               raises |-> FALSE]

ElemRepost == [found |-> [company |-> <<"E","o","n">>, location |-> <<"R","e","n","o",","," ","N","V">>,
                          date_token |-> <<"0","1","/","0","1","/","1","9","6","0">>, apply |-> <<"h","t","t","p","s",":","/","/","x","/","e">>],
               raises |-> FALSE]

ElemOld == [found |-> [company |-> <<"G","e","m">>, location |-> <<"A","m","e","s",","," ","I","A">>,
                       date_token |-> <<"0","1","/","0","1","/","1","9","6","0">>],
            raises |-> FALSE]

Pages == << <<ElemAcme, ElemBolt, ElemCato, ElemBare, ElemBad>>,
            <<ElemNoDate, ElemOld, ElemRepost>>,
            <<>> >>

\* fetch_intern_list.extract_position_from_element
extract_position_from_element(element, net) ==
    LET found == element.found
        take(f) == IF f \in DOMAIN found THEN found[f] ELSE default_position[f]
        apply_link == IF "apply" \in DOMAIN found THEN found["apply"] ELSE <<>>
        application == IF apply_link = <<>> THEN default_position.application
                       ELSE IF Contains(<<"j","o","b","r","i","g","h","t">>, lower(apply_link))
                       THEN extract_original_url_from_jobright(apply_link, net)
                       ELSE apply_link
    IN  [company |-> take("company"), role |-> take("role"), location |-> take("location"),
         application |-> application, status |-> default_position.status,
         date_token |-> take("date_token"), source_repo |-> default_position.source_repo]

\* the loop over job_elements of scrape_intern_list
RECURSIVE scrape_elements(_, _)
scrape_elements(elements, net) ==
    IF elements = <<>> THEN <<>>
    ELSE LET position == extract_position_from_element(Head(elements), net)
         IN  (IF ~Head(elements).raises /\ il_looks_like_us_or_canada(position.location)
              THEN <<position>> ELSE <<>>) \o scrape_elements(Tail(elements), net)

\* session.head answers 200: the loop breaks with working_url set
ProbeAnswers ==
    /\ entry = "fetch_intern_list" /\ pc = "probe" /\ url_idx <= Len(potential_urls)
    /\ working_url' = url_idx
    /\ pc' = "scrape"
    /\ UNCHANGED <<fn_vars, entry, now, error, csv_rows, fe_vars, url_idx, sample_idx, il_positions,
                   il_filtered, positions_sorted, deduplicated_positions>>

\* session.head raises or answers another status: the next candidate is tried
ProbeFails ==
    /\ entry = "fetch_intern_list" /\ pc = "probe" /\ url_idx <= Len(potential_urls)
    /\ url_idx' = url_idx + 1
    /\ pc' = IF url_idx = Len(potential_urls) THEN "samples" ELSE "probe"
    /\ il_positions' = IF url_idx = Len(potential_urls) THEN sample_positions ELSE il_positions
    /\ UNCHANGED <<fn_vars, entry, now, error, csv_rows, fe_vars, working_url, sample_idx, il_filtered,
                   positions_sorted, deduplicated_positions>>

\* "if not working_url": one pass of the loop that resolves the placeholder
\* listings' redirector URLs; after the last the listings are returned
ResolveSample(net) ==
    /\ entry = "fetch_intern_list" /\ pc = "samples" /\ sample_idx <= Len(sample_positions)
    /\ il_positions' =
           [il_positions EXCEPT ![sample_idx].application =
               IF Contains(<<"j","o","b","r","i","g","h","t",".","a","i">>, @)
               THEN extract_original_url_from_jobright(@, net) ELSE @]
    /\ sample_idx' = sample_idx + 1
    /\ pc' = IF sample_idx = Len(sample_positions) THEN "il_filter" ELSE "samples"
    /\ UNCHANGED <<fn_vars, entry, now, error, csv_rows, fe_vars, url_idx, working_url, il_filtered,
                   positions_sorted, deduplicated_positions>>

\* session.get or raise_for_status raises: no position is returned
ScrapeFails ==
    /\ entry = "fetch_intern_list" /\ pc = "scrape"
    /\ il_positions' = <<>>
    /\ pc' = "il_filter"
    /\ UNCHANGED <<fn_vars, entry, now, error, csv_rows, fe_vars, url_idx, working_url, sample_idx,
                   il_filtered, positions_sorted, deduplicated_positions>>

\* the page parses into the elements Pages[p]
ScrapePage(p, net) ==
    /\ entry = "fetch_intern_list" /\ pc = "scrape"
    /\ il_positions' = scrape_elements(Pages[p], net)
    /\ pc' = "il_filter"
    /\ UNCHANGED <<fn_vars, entry, now, error, csv_rows, fe_vars, url_idx, working_url, sample_idx,
                   il_filtered, positions_sorted, deduplicated_positions>>

\* the test of "Filter for US/Canada and open positions"
il_passes_filter(pos) == il_looks_like_us_or_canada(rec_get(pos, "location"))

IlFilter ==
    /\ entry = "fetch_intern_list" /\ pc = "il_filter"
    /\ il_filtered' = SelectSeq(il_positions, il_passes_filter)
    /\ pc' = "il_sort"
    /\ UNCHANGED <<fn_vars, entry, now, error, csv_rows, fe_vars, url_idx, working_url, sample_idx,
                   il_positions, positions_sorted, deduplicated_positions>>

\* fetch_intern_list.main.parse_date
il_parse_date(pos, clock) == or_epoch(il_parse_date_token(rec_get(pos, "date_token"), clock))

il_sort_keys(items, clock) == [i \in 1..Len(items) |-> il_parse_date(items[i], clock)]

IlSort ==
    /\ entry = "fetch_intern_list" /\ pc = "il_sort"
    /\ IF key_raises(il_sort_keys(il_filtered, now))
       THEN /\ error' = "OverflowError"
            /\ pc' = "crashed"
            /\ UNCHANGED positions_sorted
       ELSE /\ positions_sorted' =
                   sorted_reverse(il_filtered, ordinals(il_sort_keys(il_filtered, now)))
            /\ pc' = "il_dedup"
            /\ UNCHANGED error
    /\ UNCHANGED <<fn_vars, entry, now, csv_rows, fe_vars, url_idx, working_url, sample_idx,
                   il_positions, il_filtered, deduplicated_positions>>

\* the loop "Remove duplicates based on application URL"
RECURSIVE dedup_by_url(_, _)
dedup_by_url(ps, seen_urls) ==
    IF ps = <<>> THEN <<>>
    ELSE LET pos == Head(ps)
             url == rec_get(pos, "application")
         IN  IF url # <<>> /\ url \notin seen_urls
             THEN <<pos>> \o dedup_by_url(Tail(ps), seen_urls \cup {url})
             ELSE IF url = <<>>
             THEN <<pos>> \o dedup_by_url(Tail(ps), seen_urls)
             ELSE dedup_by_url(Tail(ps), seen_urls)

IlDedup ==
    /\ entry = "fetch_intern_list" /\ pc = "il_dedup"
    /\ deduplicated_positions' = dedup_by_url(positions_sorted, {})
    /\ pc' = "il_write"
    /\ UNCHANGED <<fn_vars, entry, now, error, csv_rows, fe_vars, url_idx, working_url, sample_idx,
                   il_positions, il_filtered, positions_sorted>>

\* row = {field: pos.get(field, '') for field in fieldnames}
il_row(pos) == [f \in basic_columns |-> rec_get(pos, f)]

IlWriteCsv ==
    /\ entry = "fetch_intern_list" /\ pc = "il_write"
    /\ csv_rows' = [i \in 1..Len(deduplicated_positions) |-> il_row(deduplicated_positions[i])]
    /\ pc' = "done"
    /\ UNCHANGED <<fn_vars, entry, now, error, fe_vars, il_vars>>

vars == <<entry, now, pc, error, repo_idx, clone_calls, fetched, positions, unique_positions,
          all_positions, standardized_positions, filtered_positions, all_positions_sorted,
          csv_rows, url_idx, working_url, sample_idx, il_positions, il_filtered,
          positions_sorted, deduplicated_positions, call, call_result>>

Init ==
    /\ entry \in {"fetch_and_extract", "fetch_intern_list"}
    /\ now \in Clocks
    /\ pc = IF entry = "fetch_and_extract" THEN "fetch" ELSE "probe"
    /\ error = "none"
    /\ repo_idx = 1
    /\ clone_calls = [r \in 1..NumRepos |-> 0]
    /\ fetched = [r \in 1..NumRepos |-> 0]
    /\ positions = <<>>
    /\ unique_positions = <<>>
    /\ all_positions = <<>>
    /\ standardized_positions = <<>>
    /\ filtered_positions = <<>>
    /\ all_positions_sorted = <<>>
    /\ csv_rows = <<>>
    /\ url_idx = 1
    /\ working_url = 0
    /\ sample_idx = 1
    /\ il_positions = <<>>
    /\ il_filtered = <<>>
    /\ positions_sorted = <<>>
    /\ deduplicated_positions = <<>>
    /\ call = NoCall
    /\ call_result = Pending

Next ==
    \/ CloneFails
    \/ \E d \in 1..Len(Docs) : CloneSucceeds(d)
    \/ Standardize
    \/ Filter
    \/ Sort
    \/ WriteCsv
    \/ ProbeAnswers
    \/ ProbeFails
    \/ \E net \in SampleNetOutcomes : ResolveSample(net)
    \/ ScrapeFails
    \/ \E p \in 1..Len(Pages), net \in NetOutcomes : ScrapePage(p, net)
    \/ IlFilter
    \/ IlSort
    \/ IlDedup
    \/ IlWriteCsv

Spec == Init /\ [][Next]_vars

(***************************************************************************)
(* The functions of the two scripts applied on their own: a call draws one *)
(* argument, the function returns.  The classifier and the date parser     *)
(* exist in both scripts; a call applies both copies to the argument.      *)
(***************************************************************************)
LocationInputs ==
    {<<>>, <<"T","o","r","o","n","t","o",","," ","O","N">>, <<"B","e","r","l","i","n",","," ","G","e","r","m","a","n","y">>, <<"S","a","n"," ","F","r","a","n","c","i","s","c","o",","," ","C","A">>, <<"R","e","m","o","t","e"," ","i","n"," ","U","S">>,
     <<"A","u","s","t","i","n",",","T","X">>, <<"c","a">>, <<"U","n","k","n","o","w","n"," ","L","o","c","a","t","i","o","n">>, <<"H","o","u","s","t","o","n">>, <<"C","a","m","p","u","s">>,
     <<"N","e","w"," ","Y","o","r","k"," ","N","Y">>, <<" ",","," ">>, <<"V","i","c","t","o","r","i","a",","," ","B","C">>, <<"u","s","a">>, <<"R","e","m","o","t","e">>,
     <<"U","n","i","t","e","d"," ","S","t","a","t","e","s">>, <<"V","a","n","c","o","u","v","e","r">>, <<"P","a","r","i","s",","," ","F","r","a","n","c","e">>, <<"W","a","s","h","i","n","g","t","o","n"," ","D","C">>,
     <<"B","o","s","t","o","n"," ","M","A">>, <<"M","o","n","t","r","e","a","l",","," ","Q","C">>, <<"B","r","e","m","e","n",","," ","D","E">>, <<"P","o","r","t","l","a","n","d",","," ","o","r">>, <<"O","N","T","A","R","I","O">>,
     <<"C","a","n","a","d","a">>, <<"A","u","s","t","i","n"," ","T","X","X">>, <<"X","-","C","A">>, <<"L","i","m","a",","," ","P","e","r","u">>, <<"T","u","l","s","a"," ",",","O","K",",">>}

TokenInputs ==
    {<<>>, <<"5","d">>, <<"2","d">>, <<"1","4","d">>, <<" ","0","d"," ">>, <<"5"," ","d","a","y","s"," ","a","g","o">>, <<"1"," ","d","a","y"," ","a","g","o">>,
     <<"3"," ","h","o","u","r","s"," ","a","g","o">>, <<"1"," ","h","o","u","r"," ","a","g","o">>, <<"3","0"," ","h","o","u","r","s"," ","a","g","o">>, <<"0","3","/","1","4","/","2","0","2","5">>, <<"2","0","2","5","-","0","3","-","1","4">>,
     <<"M","a","r","c","h"," ","1","4",","," ","2","0","2","5">>, <<"M","a","r"," ","1","4">>, <<"s","o","o","n">>, <<"1","w">>, <<"T","B","D">>, <<"1","3","/","4","5","/","2","0","2","5">>,
     <<"d">>, <<"5"," ","d">>, <<"d","a","y","s"," ","a","g","o">>, <<"p","o","s","t","e","d"," ","0","3","/","1","4","/","2","0","2","5">>, <<"0","1","/","0","1","/","1","9","6","0">>, <<"-">>}

\* a Markdown table whose header is the first line:
\*   | Company | Role | Location | Application |
\*   |---|---|---|---|
\*   | Jet | SWE | Miami, FL | https://x/j |
\*   | Kea | SWE | Lyon |
DocHeaderFirst ==
    <<"|"," ","C","o","m","p","a","n","y"," ","|"," ","R","o","l","e"," ","|"," ","L",
      "o","c","a","t","i","o","n"," ","|"," ","A","p","p","l","i","c","a","t","i","o",
      "n"," ","|","\n","|","-","-","-","|","-","-","-","|","-","-","-","|","-","-","-",
      "|","\n","|"," ","J","e","t"," ","|"," ","S","W","E"," ","|"," ","M","i","a","m",
      "i",","," ","F","L"," ","|"," ","h","t","t","p","s",":","/","/","x","/","j"," ",
      "|","\n","|"," ","K","e","a"," ","|"," ","S","W","E"," ","|"," ","L","y","o","n",
      " ","|","\n">>

\* a Markdown table whose links are written [text](url):
\*   # Jobs
\*   | Company | Role | Location | Application |
\*   |---|---|---|---|
\*   | Kite | SWE | Austin, TX | [Apply](https://x/k) |
\*   | Kite | SWE | Austin, TX | [Apply now](https://x/k) |
DocMdLinks ==
    <<"#"," ","J","o","b","s","\n","|"," ","C","o","m","p","a","n","y"," ","|"," ","R",
      "o","l","e"," ","|"," ","L","o","c","a","t","i","o","n"," ","|"," ","A","p","p",
      "l","i","c","a","t","i","o","n"," ","|","\n","|","-","-","-","|","-","-","-","|",
      "-","-","-","|","-","-","-","|","\n","|"," ","K","i","t","e"," ","|"," ","S","W",
      "E"," ","|"," ","A","u","s","t","i","n",","," ","T","X"," ","|"," ","[","A","p",
      "p","l","y","]","(","h","t","t","p","s",":","/","/","x","/","k",")"," ","|","\n",
      "|"," ","K","i","t","e"," ","|"," ","S","W","E"," ","|"," ","A","u","s","t","i",
      "n",","," ","T","X"," ","|"," ","[","A","p","p","l","y"," ","n","o","w","]","(",
      "h","t","t","p","s",":","/","/","x","/","k",")"," ","|","\n">>

FnDocs == <<DocHeaderFirst, DocMdLinks>>

\* the documents extract_from_markdown_tables is applied to
MarkdownInputs == Range(FnDocs) \cup {DocTable, DocPipeOnly, DocBothApp, DocEmpty}

\* the lists of raw field maps standardize_fields_with_ai is applied to
RawRepo == <<<<"s","o","u","r","c","e","_","r","e","p","o">>, <<"r">>>>

RawMdLinks ==
    << <<RawRepo, <<<<"c","o","m","p","a","n","y">>, <<"K","i","t","e">>>>, <<<<"r","o","l","e">>, <<"S","W","E">>>>,
         <<<<"l","o","c","a","t","i","o","n">>, <<"A","u","s","t","i","n",","," ","T","X">>>>, <<<<"a","p","p","l","i","c","a","t","i","o","n">>, <<"[","A","p","p","l","y","]","(","h","t","t","p","s",":","/","/","x","/","k",")">>>> >>,
       <<RawRepo, <<<<"c","o","m","p","a","n","y">>, <<"K","i","t","e">>>>, <<<<"r","o","l","e">>, <<"S","W","E">>>>,
         <<<<"l","o","c","a","t","i","o","n">>, <<"A","u","s","t","i","n",","," ","T","X">>>>,
         <<<<"a","p","p","l","i","c","a","t","i","o","n">>, <<"[","A","p","p","l","y"," ","n","o","w","]","(","h","t","t","p","s",":","/","/","x","/","k",")">>>> >> >>

RawCorp ==
    << <<RawRepo, <<<<"c","o","r","p">>, <<"A","c","m","e">>>>, <<<<"r","o","l","e">>, <<"S","W","E">>>>,
         <<<<"l","o","c","a","t","i","o","n">>, <<"A","u","s","t","i","n",","," ","T","X">>>> >> >>

RawPlain ==
    << <<RawRepo, <<<<"C","o","m","p","a","n","y">>, <<"L","u","x">>>>, <<<<"J","o","b"," ","T","i","t","l","e">>, <<"S","W","E">>>>,
         <<<<"C","i","t","y">>, <<"B","o","i","s","e",","," ","I","D">>>>, <<<<"A","p","p","l","y"," ","U","R","L">>, <<"h","t","t","p","s",":","/","/","x","/","l">>>>,
         <<<<"S","t","a","t","u","s">>, <<"O","p","e","n">>>>, <<<<"D","a","t","e"," ","P","o","s","t","e","d">>, <<"2","d">>>> >> >>

RawBare == << <<RawRepo>>, <<RawRepo, <<<<"n","o","t","e","s">>, <<"n","/","a">>>> >> >>

RawInputs == {<<>>, RawMdLinks, RawCorp, RawPlain, RawBare}

ClassifierCalls == {[fn |-> "looks_like_us_or_canada", arg |-> loc] : loc \in LocationInputs}

ParserCalls == {[fn |-> "parse_date_token", arg |-> token] : token \in TokenInputs}

MarkdownCalls == {[fn |-> "extract_from_markdown_tables", arg |-> text] : text \in MarkdownInputs}

NormalizerCalls == {[fn |-> "standardize_fields_with_ai", arg |-> raw] : raw \in RawInputs}

FnCalls == ClassifierCalls \cup ParserCalls \cup MarkdownCalls \cup NormalizerCalls

\* everything but the call and its result stays as a script would start
FnFrame ==
    UNCHANGED <<entry, now, error, csv_rows, fe_vars, il_vars, call>>

\* looks_like_us_or_canada(loc), in fetch_and_extract.py and in fetch_intern_list.py
CallClassifier ==
    /\ entry = "functions" /\ pc = "call" /\ call.fn = "looks_like_us_or_canada"
    /\ call_result' = Returned([fe |-> looks_like_us_or_canada(call.arg),
                           il |-> il_looks_like_us_or_canada(call.arg)])
    /\ pc' = "returned"
    /\ FnFrame

\* parse_date_token(token), in fetch_and_extract.py and in fetch_intern_list.py
CallParser ==
    /\ entry = "functions" /\ pc = "call" /\ call.fn = "parse_date_token"
    /\ call_result' = Returned([fe |-> parse_date_token(call.arg, now),
                           il |-> il_parse_date_token(call.arg, now)])
    /\ pc' = "returned"
    /\ FnFrame

\* extract_from_markdown_tables(text, repo) for the first source
CallMarkdownExtractor ==
    /\ entry = "functions" /\ pc = "call" /\ call.fn = "extract_from_markdown_tables"
    /\ call_result' = Returned(extract_from_markdown_tables(call.arg, REPOS[1]))
    /\ pc' = "returned"
    /\ FnFrame

\* standardize_fields_with_ai(positions): the records, or the exception raised
CallNormalizer ==
    /\ entry = "functions" /\ pc = "call" /\ call.fn = "standardize_fields_with_ai"
    /\ call_result' = Returned(standardize_fields_with_ai(call.arg))
    /\ pc' = "returned"
    /\ FnFrame

FnInit ==
    /\ entry = "functions"
    /\ now \in Clocks
    /\ pc = "call"
    /\ error = "none"
    /\ repo_idx = 1
    /\ clone_calls = [r \in 1..NumRepos |-> 0]
    /\ fetched = [r \in 1..NumRepos |-> 0]
    /\ positions = <<>>
    /\ unique_positions = <<>>
    /\ all_positions = <<>>
    /\ standardized_positions = <<>>
    /\ filtered_positions = <<>>
    /\ all_positions_sorted = <<>>
    /\ csv_rows = <<>>
    /\ url_idx = 1
    /\ working_url = 0
    /\ sample_idx = 1
    /\ il_positions = <<>>
    /\ il_filtered = <<>>
    /\ positions_sorted = <<>>
    /\ deduplicated_positions = <<>>
    /\ call \in FnCalls
    /\ call_result = Pending

FnNext ==
    \/ CallClassifier
    \/ CallParser
    \/ CallMarkdownExtractor
    \/ CallNormalizer

FnSpec == FnInit /\ [][FnNext]_vars

(***************************************************************************)
(* Properties.                                                             *)
(***************************************************************************)
FeDone == entry = "fetch_and_extract" /\ pc = "done"

IlDone == entry = "fetch_intern_list" /\ pc = "done"

\* the raw application value the merge step reads
raw_link(pos) == dict_get(pos, <<"a","p","p","l","i","c","a","t","i","o","n">>, <<>>)

\* C1: in a run of fetch_and_extract.main the rows written contain at most
\* one record for each non-empty application value, also when the same link
\* occurs in the documents of two sources.
C1_OneRecordPerLink ==
    FeDone => \A i, j \in 1..Len(csv_rows) :
                  (i < j /\ csv_rows[i]["application"] # <<>>)
                      => csv_rows[i]["application"] # csv_rows[j]["application"]

\* the indices of the maps the merge policy keeps: those with an empty or
\* absent link, and the first with each non-empty link
KeptIndices(ps) ==
    {i \in 1..Len(ps) :
        raw_link(ps[i]) = <<>> \/ \A j \in 1..(i - 1) : raw_link(ps[j]) # raw_link(ps[i])}

\* the p-th smallest element of a set of indices
NthIndex(K, p) == CHOOSE i \in K : Cardinality({j \in K : j < i}) = p - 1

KeptInOrder(ps, K) == [p \in 1..Cardinality(K) |-> ps[NthIndex(K, p)]]

\* C2: extract_positions_from_text, applied to the concatenated rows of the
\* strategies, keeps for each non-empty application value exactly the first
\* map in concatenation order, keeps every map whose application is empty or
\* absent, and preserves the relative order of the maps it keeps.
C2_MergeKeepsFirstPerLink == unique_positions = KeptInOrder(positions, KeptIndices(positions))

\* C2's case: two maps with the same non-empty link, and a map with no link
C2_Witness ==
    /\ \E i, j \in 1..Len(positions) :
           i < j /\ raw_link(positions[i]) # <<>> /\ raw_link(positions[i]) = raw_link(positions[j])
    /\ \E i \in 1..Len(positions) : raw_link(positions[i]) = <<>>
    /\ Len(unique_positions) < Len(positions)

\* C3: a record is emitted by fetch_and_extract.main only if its location
\* satisfies the US/Canada classifier and its status contains "open" in any
\* case or the checkmark; a record with status "Closed" is never emitted.
C3_EmittedPassBothFilters ==
    FeDone => \A i \in 1..Len(csv_rows) :
                  /\ looks_like_us_or_canada(csv_rows[i]["location"])
                  /\ \/ Contains(<<"o","p","e","n">>, lower(csv_rows[i]["status"]))
                     \/ Contains(<<"U+2705">>, csv_rows[i]["status"])
                  /\ csv_rows[i]["status"] # <<"C","l","o","s","e","d">>

\* C3's case: a run that wrote rows although a standardized record had
\* status "Closed" and a US/Canada location
C3_Witness ==
    /\ FeDone /\ csv_rows # <<>>
    /\ \E i \in 1..Len(standardized_positions) :
           /\ standardized_positions[i]["status"] = <<"C","l","o","s","e","d">>
           /\ looks_like_us_or_canada(standardized_positions[i]["location"])

\* the recency key the ordering rule gives a record: its date, and for a
\* record with no date a key below every date
RecencyKey(dt) == IF dt.tag = "date" THEN dt.ordinal ELSE 0

FeRecencyKeys(records, clock) ==
    [i \in 1..Len(records) |->
        RecencyKey(parse_date_token(rec_get(records[i], "date_token"), clock))]

IlRecencyKeys(records, clock) ==
    [i \in 1..Len(records) |->
        RecencyKey(il_parse_date_token(rec_get(records[i], "date_token"), clock))]

NonIncreasing(keys) == \A i, j \in 1..Len(keys) : i < j => keys[i] >= keys[j]

\* C4: in both entry points the retained records are emitted in non-increasing
\* order of derived date, a record with no date counting as older than every
\* dated record, and records with equal dates keep their input order.
C4_SortedByRecency ==
    /\ FeDone =>
           /\ NonIncreasing(FeRecencyKeys(csv_rows, now))
           /\ all_positions_sorted =
                  sorted_reverse(filtered_positions, FeRecencyKeys(filtered_positions, now))
    /\ IlDone =>
           /\ NonIncreasing(IlRecencyKeys(csv_rows, now))
           /\ positions_sorted = sorted_reverse(il_filtered, IlRecencyKeys(il_filtered, now))

\* C5: a source whose clone fails is skipped without retry and the run goes
\* on: every source is fetched at most once, all are fetched before the run
\* leaves the loop, and what the run writes (or the exception that ends it) is
\* what the sources that succeeded give on their own.
C5_FailedSourceSkipped ==
    /\ \A r \in 1..NumRepos : clone_calls[r] <= 1
    /\ (entry = "fetch_and_extract" /\ pc # "fetch") => \A r \in 1..NumRepos : clone_calls[r] = 1
    /\ (entry = "fetch_and_extract" /\ pc \in {"done", "crashed"})
           => [error |-> error, rows |-> csv_rows]
                  = main_from_raw(collect_positions(fetched, 1), now)

\* C5's case: the first source failed, a later one succeeded, rows were written
C5_Witness ==
    /\ FeDone /\ csv_rows # <<>>
    /\ fetched[1] = -1
    /\ \E r \in 2..NumRepos : fetched[r] > 0

\* C6: when none of the candidate URLs answers, scrape_intern_list contributes
\* no position to the output of fetch_intern_list.
C6_UnavailableSourceEmitsNothing == (IlDone /\ working_url = 0) => csv_rows = <<>>

\* C7: standardize_fields_with_ai returns one record per raw field map and
\* raises no exception, whatever the keys of the maps.
C7_NormalizerNeverRaises ==
    /\ error # "TypeError"
    /\ (entry = "fetch_and_extract" /\ pc \in {"filter", "sort", "write", "done"})
           => Len(standardized_positions) = Len(all_positions)

\* the default of each canonical field
CanonicalDefault(f) ==
    CASE f = "company" -> <<"U","n","k","n","o","w","n"," ","C","o","m","p","a","n","y">>
      [] f = "role" -> <<"U","n","k","n","o","w","n"," ","R","o","l","e">>
      [] f = "location" -> <<"U","n","k","n","o","w","n"," ","L","o","c","a","t","i","o","n">>
      [] f = "status" -> <<"o","p","e","n">>
      [] OTHER -> <<>>

\* the values a raw field map carries
RawValues(pos) == {pos[j][2] : j \in 1..Len(pos)}

\* the texts the intern-list source can supply: what the selectors find in the
\* page elements, the placeholder listings, and the URLs a redirector resolves to
IlSuppliedTexts ==
    UNION {{el.found[k] : k \in DOMAIN el.found} :
              el \in UNION {Range(Pages[p]) : p \in 1..Len(Pages)}}
        \cup {sample_positions[i][f] : i \in 1..Len(sample_positions), f \in basic_columns}
        \cup {company_mappings[i][2] : i \in 1..Len(company_mappings)}
        \cup {NetDirect.final_url, NetParam.params[1][2]}

\* C8: every row written by either entry point has all seven canonical
\* fields, each holding an extracted value or the field's default.
C8_SevenFieldsPresent ==
    /\ FeDone => \A i \in 1..Len(csv_rows) :
           /\ basic_columns \subseteq DOMAIN csv_rows[i]
           /\ \E k \in 1..Len(all_positions) :
                  \A f \in basic_columns :
                      csv_rows[i][f] \in RawValues(all_positions[k]) \cup {CanonicalDefault(f)}
    /\ IlDone => \A i \in 1..Len(csv_rows) :
           /\ basic_columns \subseteq DOMAIN csv_rows[i]
           /\ \A f \in basic_columns :
                  csv_rows[i][f] \in IlSuppliedTexts \cup {default_position[f]}

\* C8's case: a written row whose raw field map had no role, status or date
\* column, so that the three fields hold their defaults
C8_Witness ==
    /\ FeDone
    /\ \E i \in 1..Len(csv_rows), k \in 1..Len(all_positions) :
           /\ ~dict_has(all_positions[k], <<"r","o","l","e">>)
           /\ ~dict_has(all_positions[k], <<"s","t","a","t","u","s">>)
           /\ ~dict_has(all_positions[k], <<"d","a","t","e","_","t","o","k","e","n">>)
           /\ dict_get(all_positions[k], <<"l","i","n","k">>, <<>>) = csv_rows[i]["application"]
           /\ csv_rows[i]["role"] = <<"U","n","k","n","o","w","n"," ","R","o","l","e">>
           /\ csv_rows[i]["status"] = <<"o","p","e","n">>
           /\ csv_rows[i]["date_token"] = <<>>

\* the URLs both strategies produce for a document: the links of the rows of
\* the HTML strategy that pass the geography test and that a map of the other
\* table strategy carries under some column label
UrlsOfBothStrategies(text, repo) ==
    {raw_link(h) : h \in {x \in Range(extract_from_html_tables(text, repo)) :
                             /\ raw_link(x) # <<>>
                             /\ looks_like_us_or_canada(dict_get(x, <<"l","o","c","a","t","i","o","n">>, <<>>))
                             /\ \E m \in Range(extract_from_markdown_tables(text, repo)) :
                                    raw_link(x) \in RawValues(m)}}

RowsWith(repo, url) ==
    {i \in 1..Len(csv_rows) :
        csv_rows[i]["application"] = url /\ csv_rows[i]["source_repo"] = repo}

\* C9: when both extraction strategies produce the same application URL for
\* one document, under whatever column label the second carries it, the rows
\* written for that document contain exactly one record with that URL.
C9_OneRecordAcrossStrategies ==
    FeDone => \A r \in 1..NumRepos :
                  fetched[r] > 0 =>
                      \A u \in UrlsOfBothStrategies(Docs[fetched[r]], REPOS[r]) :
                          Cardinality(RowsWith(REPOS[r], u)) = 1

\* the run read the header-less pipe-delimited document from exactly one
\* source and nothing from the others
OnlyPipeDocument ==
    /\ Cardinality({r \in 1..NumRepos : fetched[r] > 0 /\ Docs[fetched[r]] = DocPipeOnly}) = 1
    /\ \A r \in 1..NumRepos :
           fetched[r] = -1 \/ (fetched[r] > 0 /\ Docs[fetched[r]] \in {DocPipeOnly, DocEmpty})

\* C10: for the pipe-delimited document with no header line the output is
\* exactly one record, CompanyA's, dated the clock's date minus 2 days;
\* CompanyB is dropped by the geography filter.
C10_PipeDocumentEndToEnd ==
    (entry = "fetch_and_extract" /\ pc \in {"done", "crashed"} /\ OnlyPipeDocument)
        => /\ pc = "done"
           /\ Len(csv_rows) = 1
           /\ csv_rows[1]["company"] = <<"C","o","m","p","a","n","y","A">>
           /\ parse_date_token(csv_rows[1]["date_token"], now) = DateOf(Today(now) - 2)

\* C11: after normalization no stage changes a field: the filter, the sort
\* and the dedup only pass, reorder or drop records, so every written row is
\* field for field a record of the normalizer (or of the scraper), its
\* date_token being the original token text.
C11_StagesKeepFields ==
    /\ (entry = "fetch_and_extract" /\ pc \in {"sort", "write", "done"}) =>
           \A i \in 1..Len(filtered_positions) :
               \E k \in 1..Len(standardized_positions) :
                   filtered_positions[i] = standardized_positions[k]
    /\ FeDone =>
           /\ Len(csv_rows) <= Len(standardized_positions)
           /\ \A i \in 1..Len(csv_rows) :
                  \E k \in 1..Len(standardized_positions) :
                      csv_rows[i] = standardized_positions[k]
    /\ IlDone =>
           /\ Len(csv_rows) <= Len(il_positions)
           /\ \A i \in 1..Len(csv_rows) :
                  \E k \in 1..Len(il_positions) : csv_rows[i] = il_positions[k]

\* C11's case: a run that dropped a record, moved another, and wrote a row
\* whose token "2d" is not the date derived from it
C11_Witness ==
    /\ FeDone
    /\ Len(csv_rows) < Len(standardized_positions)
    /\ \E i, j \in 1..Len(csv_rows), k, l \in 1..Len(standardized_positions) :
           /\ i < j /\ k < l
           /\ csv_rows[i] = standardized_positions[l]
           /\ csv_rows[j] = standardized_positions[k]
           /\ csv_rows[i] # csv_rows[j]
    /\ \E i \in 1..Len(csv_rows) : csv_rows[i]["date_token"] = <<"2","d">>

\* a call of fn has returned
HasReturned(fn) == entry = "functions" /\ call.fn = fn /\ call_result.tag = "returned"

\* rule 1: the country and region markers
RegionMarkers ==
    {<<"u","s","a">>, <<"u","n","i","t","e","d"," ","s","t","a","t","e","s">>, <<" ","u","s">>, <<"c","a","n","a","d","a">>, <<"o","n","t","a","r","i","o">>, <<"t","o","r","o","n","t","o">>,
     <<"v","a","n","c","o","u","v","e","r">>}

HasRegionMarker(loc) == \E m \in RegionMarkers : Contains(m, lower(loc))

\* rule 2: a maximal run of characters other than whitespace and commas that,
\* uppercased, is a state abbreviation
IsTokenAt(s, i, j) ==
    /\ \A k \in i..j : ~IsLocSep(s[k])
    /\ (i = 1 \/ IsLocSep(s[i - 1]))
    /\ (j = Len(s) \/ IsLocSep(s[j + 1]))

HasStateToken(loc) ==
    \E i, j \in 1..Len(loc) :
        i <= j /\ IsTokenAt(loc, i, j) /\ SubSeq(upper(loc), i, j) \in US_STATE_ABBREVS

\* C12: looks_like_us_or_canada is false for the empty text and otherwise true
\* exactly when the lowercased text contains a region marker or a
\* whitespace/comma-separated token, uppercased, is one of the 50 state
\* abbreviations; "Toronto, ON" is true, "Berlin, Germany" false; the copies
\* in the two scripts return the same answer.
C12_ClassifierRules ==
    HasReturned("looks_like_us_or_canada") =>
        /\ call_result.value.fe
               = (call.arg # <<>> /\ (HasRegionMarker(call.arg) \/ HasStateToken(call.arg)))
        /\ call_result.value.il = call_result.value.fe
        /\ call.arg = <<"T","o","r","o","n","t","o",","," ","O","N">> => call_result.value.fe
        /\ call.arg = <<"B","e","r","l","i","n",","," ","G","e","r","m","a","n","y">> => ~call_result.value.fe
        /\ Cardinality(US_STATE_ABBREVS) = 50 /\ us_states = US_STATE_ABBREVS

\* C12's case: the classifier returned true for "Toronto, ON"
C12_Witness ==
    /\ HasReturned("looks_like_us_or_canada")
    /\ call.arg = <<"T","o","r","o","n","t","o",","," ","O","N">>
    /\ call_result.value.fe /\ call_result.value.il

\* what the parsing rule gives for the tokens it names: N days back for "Nd"
\* and "N days ago", the clock's day for "N hours ago", the date written for
\* a numeric date, no value for the empty token and for a token of no form
DaysAgoTokens == {<<<<"5","d">>, 5>>, <<<<"2","d">>, 2>>, <<<<"1","4","d">>, 14>>, <<<<"5"," ","d","a","y","s"," ","a","g","o">>, 5>>,
                  <<<<"1"," ","d","a","y"," ","a","g","o">>, 1>>, <<<<"3"," ","h","o","u","r","s"," ","a","g","o">>, 0>>, <<<<"1"," ","h","o","u","r"," ","a","g","o">>, 0>>}

NoValueTokens == {<<>>, <<"s","o","o","n">>, <<"T","B","D">>, <<"-">>}

C13_HasExpected(token) ==
    \/ \E e \in DaysAgoTokens : e[1] = token
    \/ token = <<"0","3","/","1","4","/","2","0","2","5">>
    \/ token \in NoValueTokens

C13_Expected(token, clock) ==
    IF token = <<"0","3","/","1","4","/","2","0","2","5">> THEN DateOf(ToOrdinal(2025, 3, 14))
    ELSE IF token \in NoValueTokens THEN NoDate
    ELSE DateOf(Today(clock) - (CHOOSE e \in DaysAgoTokens : e[1] = token)[2])

\* C13: at a fixed clock parse_date_token, in each script, maps "Nd" and
\* "N days ago" to the clock's date minus N days, "N hours ago" to the clock's
\* day, "03/14/2025" to 2025-03-14, and the empty token and a token of no form
\* to no value.
C13_ParserForms ==
    (HasReturned("parse_date_token") /\ C13_HasExpected(call.arg)) =>
        /\ call_result.value.fe = C13_Expected(call.arg, now)
        /\ call_result.value.il = C13_Expected(call.arg, now)

\* no key of a raw field map matches a status alias or a status abbreviation,
\* exactly or by substring
StatusNames == Range(target_fields("status")) \cup Range(field_abbrevs("status"))

NoStatusKey(pos) ==
    \A j \in 1..Len(pos) : \A n \in StatusNames :
        ~Contains(n, lower(pos[j][1])) /\ ~Contains(lower(pos[j][1]), n)

Normalized == entry = "fetch_and_extract" /\ pc \in {"filter", "sort", "write", "done"}

\* C14: when no key of a raw field map matches a status alias or abbreviation
\* the normalizer sets status to "open", so the record passes the status
\* filter and is emitted whenever its location passes the geography filter.
C14_DefaultStatusOpen ==
    Normalized =>
        \A k \in 1..Len(all_positions) :
            NoStatusKey(all_positions[k]) =>
                /\ standardized_positions[k]["status"] = <<"o","p","e","n">>
                /\ (pc = "done" /\ looks_like_us_or_canada(standardized_positions[k]["location"]))
                       => \E i \in 1..Len(csv_rows) : csv_rows[i] = standardized_positions[k]

\* C14's case: a raw field map with no status column whose record was written
C14_Witness ==
    /\ FeDone
    /\ \E k \in 1..Len(all_positions), i \in 1..Len(csv_rows) :
           /\ NoStatusKey(all_positions[k])
           /\ csv_rows[i] = standardized_positions[k]
           /\ csv_rows[i]["status"] = <<"o","p","e","n">>

\* the URL of a value written [text](url); the value itself otherwise
EmbedsMarkdownLink(v) ==
    /\ v # <<>> /\ Head(v) = "[" /\ v[Len(v)] = ")"
    /\ Contains(<<"]","(">>, v)

MarkdownUrl(v) == SubSeq(v, Find(<<"]","(">>, v) + 2, Len(v) - 1)

\* C15: when the value matched to application embeds Markdown link syntax
\* [text](url), the canonical application holds only the URL, so two rows
\* with the same URL and different link text get the same application.
C15_MarkdownLinkUrl ==
    HasReturned("standardize_fields_with_ai") =>
        \A k \in 1..Len(call.arg) :
            (/\ dict_has(call.arg[k], <<"a","p","p","l","i","c","a","t","i","o","n">>)
             /\ EmbedsMarkdownLink(dict_at(call.arg[k], <<"a","p","p","l","i","c","a","t","i","o","n">>)))
                => /\ call_result.value.error = "none"
                   /\ call_result.value.records[k]["application"]
                          = MarkdownUrl(dict_at(call.arg[k], <<"a","p","p","l","i","c","a","t","i","o","n">>))

\* no key of a raw field map matches an alias of field f, exactly or by substring
NoAliasKey(pos, f) ==
    \A j \in 1..Len(pos) : \A n \in Range(target_fields(f)) :
        ~Contains(n, lower(pos[j][1])) /\ ~Contains(lower(pos[j][1]), n)

\* the keys of a raw field map that are abbreviations of field f
AbbrevKeys(pos, f) == {j \in 1..Len(pos) : lower(pos[j][1]) \in Range(field_abbrevs(f))}

\* C16: when no key of a raw field map matches an alias of a canonical field
\* exactly or by substring, but some key equals one of the field's
\* abbreviations, the canonical field takes that key's value.
C16_AbbreviationMatch ==
    HasReturned("standardize_fields_with_ai") =>
        \A k \in 1..Len(call.arg) : \A i \in 1..Len(TargetFieldOrder) :
            (/\ NoAliasKey(call.arg[k], TargetFieldOrder[i])
             /\ AbbrevKeys(call.arg[k], TargetFieldOrder[i]) # {})
                => /\ call_result.value.error = "none"
                   /\ \E j \in AbbrevKeys(call.arg[k], TargetFieldOrder[i]) :
                          call_result.value.records[k][TargetFieldOrder[i]] = call.arg[k][j][2]

\* the first line that contains a pipe and a header keyword, counted from 1;
\* 0 when there is none
FirstHeaderLine(lines) == LeastOrZero({i \in 1..Len(lines) : IsHeaderLine(lines[i])})

\* the lines after the header and the line that follows it which are pipe
\* rows with at least as many non-empty cells as there are headers
QualifyingRows(lines, h) ==
    {i \in (h + 2)..Len(lines) :
        /\ Contains(<<"|">>, lines[i])
        /\ ~StartsWith(strip(lines[i]), <<"|","-","-","-">>)
        /\ Len(stripped_cells(split(lines[i], "|"))) >= Len(parse_headers(lines[h]))}

HeaderKeys(lines, h) == {<<"s","o","u","r","c","e","_","r","e","p","o">>} \cup Range(parse_headers(lines[h]))

\* the maps a document should yield: one per qualifying row, keyed by the headers
YieldsRowsOf(maps, lines, h) ==
    IF h = 0 THEN maps = <<>>
    ELSE /\ Len(maps) = Cardinality(QualifyingRows(lines, h))
         /\ \A k \in 1..Len(maps) : Range(dict_keys(maps[k])) = HeaderKeys(lines, h)

\* C19: extract_from_markdown_tables takes as header the first line with a
\* pipe and the keyword "company" or "role", wherever it is (the very first
\* line included), skips the next line, and yields one raw field map keyed
\* by the header names for each later pipe row with at least as many
\* non-empty cells as there are headers.
C19_HeaderAnywhere ==
    HasReturned("extract_from_markdown_tables") =>
        YieldsRowsOf(call_result.value, splitlines(call.arg),
                     FirstHeaderLine(splitlines(call.arg)))

\* the sorted records that carry a given application URL, as positions
WithUrl(records, url) == {i \in 1..Len(records) : rec_get(records[i], "application") = url}

\* the positions of the sorted records that survive the pass: every record
\* with an empty URL and, for each other URL, the first record that has it
FirstPerUrl(records) ==
    {i \in 1..Len(records) :
        \/ rec_get(records[i], "application") = <<>>
        \/ \A j \in WithUrl(records, rec_get(records[i], "application")) : i <= j}

\* C17: the final dedup pass of fetch_intern_list.main runs after the sort and
\* keeps, for every non-empty application URL, the first record with that URL
\* in sorted order, so no dropped record has a strictly more recent derived
\* date than the survivor with the same URL; every record with an empty URL
\* survives; survivors keep their sorted order.
C17_DedupAfterSort ==
    IlDone =>
        /\ deduplicated_positions = KeptInOrder(positions_sorted, FirstPerUrl(positions_sorted))
        /\ \A i \in FirstPerUrl(positions_sorted) :
               \A j \in WithUrl(positions_sorted, rec_get(positions_sorted[i], "application")) :
                   IlRecencyKeys(positions_sorted, now)[j]
                       <= IlRecencyKeys(positions_sorted, now)[i]

\* the mechanics of the pass alone: first per URL, empty URLs kept, order kept
C17_FirstPerUrlKept ==
    IlDone =>
        deduplicated_positions = KeptInOrder(positions_sorted, FirstPerUrl(positions_sorted))

====
